---- MODULE Spec2Model ----
(***************************************************************************)
(* Model of the DTC reconciliation pipeline of carpulse-data:              *)
(*   fill_dtc_gaps.py  (load / import / cleanup / save, JSON recovery)     *)
(*   generate_vehicles.py (JSON repair and recovery, generator inserts)    *)
(*   gui.py (manual add and bulk upload), merge_to_json.py (assets merge)  *)
(*                                                                         *)
(* Text is modelled as a sequence of one-character strings, so that the    *)
(* string operations of the source (upper, lower, strip, find, rfind,      *)
(* regular expressions, the JSON grammar) are computed and not assumed.    *)
(* A missing CSV cell (pandas NaN) is the one-element sequence NaN, which  *)
(* no text equals because its element is not a single character.           *)
(***************************************************************************)
EXTENDS Naturals, Integers, Sequences, FiniteSets, TLC

VARIABLES outputFile, assetsFile, stats, lastOp, norm, rec, cls, run, call

vars == <<outputFile, assetsFile, stats, lastOp, norm, rec, cls, run, call>>

(***************************************************************************)
(* Characters and the string primitives of Python used by the source.      *)
(***************************************************************************)
LowerAlpha == <<"a","b","c","d","e","f","g","h","i","j","k","l","m",
                "n","o","p","q","r","s","t","u","v","w","x","y","z">>

UpperAlpha == <<"A","B","C","D","E","F","G","H","I","J","K","L","M",
                "N","O","P","Q","R","S","T","U","V","W","X","Y","Z">>

Digits == <<"0","1","2","3","4","5","6","7","8","9">>

\* The grave accent (U+0060) of a markdown fence. It is written "~" here, a
\* character the model uses for nothing else, and keeps its code-point rank.
BackTick == "~"

\* The characters of the model in code-point order (what Python compares by).
CodePoints == <<"\t", "\n", " ", "\"", ",", "-", "/">> \o Digits \o <<":">>
              \o UpperAlpha \o <<"[", "\\", "]", "_", BackTick>> \o LowerAlpha
              \o <<"{", "|", "}">>

NaN == <<"NaN">>

Whitespace == {" ", "\t", "\n"}

IndexIn(c, seq) == IF \E i \in 1..Len(seq) : seq[i] = c
                   THEN CHOOSE i \in 1..Len(seq) : seq[i] = c
                   ELSE 0

\* ord(c), tabulated once
OrdTable == [c \in {CodePoints[i] : i \in 1..Len(CodePoints)} |-> IndexIn(c, CodePoints)]

Ord(c) == IF c \in DOMAIN OrdTable THEN OrdTable[c] ELSE 0

\* str.lower() and str.upper() on one character, tabulated once
LowerTable == [c \in {UpperAlpha[i] : i \in 1..26} |-> LowerAlpha[IndexIn(c, UpperAlpha)]]

UpperTable == [c \in {LowerAlpha[i] : i \in 1..26} |-> UpperAlpha[IndexIn(c, LowerAlpha)]]

CharLower(c) == IF c \in DOMAIN LowerTable THEN LowerTable[c] ELSE c

CharUpper(c) == IF c \in DOMAIN UpperTable THEN UpperTable[c] ELSE c

StrLower(s) == [i \in 1..Len(s) |-> CharLower(s[i])]

StrUpper(s) == [i \in 1..Len(s) |-> CharUpper(s[i])]

\* s[a:b] of Python with 0-based a, b already clipped to 0..len(s)
Slice(s, a, b) == IF b <= a THEN <<>> ELSE SubSeq(s, a + 1, b)

StartsAt(s, pat, i) == /\ i + Len(pat) <= Len(s)
                       /\ \A k \in 1..Len(pat) : s[i + k] = pat[k]

\* str.find(pat, start): 0-based index of the first occurrence at or after start, else -1
Find(s, pat, start) ==
    IF \E i \in start..Len(s) : StartsAt(s, pat, i)
    THEN CHOOSE i \in start..Len(s) :
            /\ StartsAt(s, pat, i)
            /\ \A j \in start..(i - 1) : ~StartsAt(s, pat, j)
    ELSE -1

\* str.rfind(pat): 0-based index of the last occurrence, else -1
RFind(s, pat) ==
    IF \E i \in 0..Len(s) : StartsAt(s, pat, i)
    THEN CHOOSE i \in 0..Len(s) :
            /\ StartsAt(s, pat, i)
            /\ \A j \in (i + 1)..Len(s) : ~StartsAt(s, pat, j)
    ELSE -1

\* pat in s
Contains(s, pat) == Find(s, pat, 0) >= 0

LeadingWs(s) == IF \E i \in 1..Len(s) : s[i] \notin Whitespace
                THEN (CHOOSE i \in 1..Len(s) :
                         /\ s[i] \notin Whitespace
                         /\ \A j \in 1..(i - 1) : s[j] \in Whitespace) - 1
                ELSE Len(s)

TrailingWs(s) == IF \E i \in 1..Len(s) : s[i] \notin Whitespace
                 THEN Len(s) - (CHOOSE i \in 1..Len(s) :
                         /\ s[i] \notin Whitespace
                         /\ \A j \in (i + 1)..Len(s) : s[j] \in Whitespace)
                 ELSE 0

\* str.strip()
Strip(s) == IF LeadingWs(s) = Len(s) THEN <<>>
            ELSE Slice(s, LeadingWs(s), Len(s) - TrailingWs(s))

\* Python's < on str: by code point, a proper prefix first
RECURSIVE StrLess(_, _)
StrLess(a, b) ==
    IF b = <<>> THEN FALSE
    ELSE IF a = <<>> THEN TRUE
    ELSE IF Ord(Head(a)) # Ord(Head(b)) THEN Ord(Head(a)) < Ord(Head(b))
    ELSE StrLess(Tail(a), Tail(b))

\* re.sub('(?i)' + pat, rep, s): every non-overlapping match, left to right
RECURSIVE ReSubIgnoreCase(_, _, _)
ReSubIgnoreCase(s, pat, rep) ==
    IF Len(s) < Len(pat) THEN s
    ELSE IF StartsAt(StrLower(s), pat, 0)
         THEN rep \o ReSubIgnoreCase(Slice(s, Len(pat), Len(s)), pat, rep)
         ELSE <<Head(s)>> \o ReSubIgnoreCase(Tail(s), pat, rep)

(***************************************************************************)
(* Record Normalizer: cleanup_powertrain_data.normalize_powertrain         *)
(***************************************************************************)
W_gasoline == <<"g","a","s","o","l","i","n","e">>
W_Petrol == <<"P","e","t","r","o","l">>
W_Diesel == <<"D","i","e","s","e","l">>
W_Electric == <<"E","l","e","c","t","r","i","c">>
W_Hybrid == <<"H","y","b","r","i","d">>
W_PetrolHybrid == W_Petrol \o <<" ">> \o W_Hybrid
W_DieselHybrid == W_Diesel \o <<" ">> \o W_Hybrid
W_PlugInHybrid == <<"P","l","u","g","-","i","n"," ">> \o W_Hybrid
W_All == <<"A","l","l">>

VALID_TYPES == {W_Petrol, W_Diesel, W_PetrolHybrid, W_DieselHybrid,
                W_PlugInHybrid, W_Electric, W_All}

\* the dict type_mapping, as <<key, value>> pairs
type_mapping == {
    <<StrLower(W_Petrol), W_Petrol>>,
    <<StrLower(W_Diesel), W_Diesel>>,
    <<StrLower(W_Electric), W_Electric>>,
    <<StrLower(W_Hybrid), W_PetrolHybrid>>,
    <<StrLower(W_PetrolHybrid), W_PetrolHybrid>>,
    <<StrLower(W_DieselHybrid), W_DieselHybrid>>,
    <<StrLower(W_PlugInHybrid), W_PlugInHybrid>>,
    <<<<"p","l","u","g","i","n"," ">> \o StrLower(W_Hybrid), W_PlugInHybrid>>,
    <<<<"p","h","e","v">>, W_PlugInHybrid>>,
    <<<<"b","e","v">>, W_Electric>>,
    <<<<"e","v">>, W_Electric>>,
    <<<<"h","e","v">>, W_PetrolHybrid>>,
    <<StrLower(W_All), W_All>>,
    <<<<"a","u","t","o","m","a","t","i","c">>, W_All>> }

MappingKeys == {p[1] : p \in type_mapping}

MappingGet(k) == (CHOOSE p \in type_mapping : p[1] = k)[2]

\* cleaned after strip and the case-insensitive Gasoline -> Petrol substitution
GasolineReplaced(value) ==
    IF Contains(StrLower(Strip(value)), W_gasoline)
    THEN ReSubIgnoreCase(Strip(value), W_gasoline, W_Petrol)
    ELSE Strip(value)

\* A slip of the normalizer: the Gasoline branch returns as soon as it has
\* substituted, before the combined-type, synonym and validity checks.
normalize_powertrain_early_return(value) ==
    IF value = NaN \/ value = <<>> THEN W_All
    ELSE IF Contains(StrLower(Strip(value)), W_gasoline) THEN GasolineReplaced(value)
    ELSE LET cleaned == Strip(value)
         IN  IF Contains(cleaned, <<"|">>) THEN W_All
             ELSE IF Contains(cleaned, <<"/">>) THEN W_All
             ELSE IF StrLower(cleaned) \in MappingKeys THEN MappingGet(StrLower(cleaned))
             ELSE IF cleaned \notin VALID_TYPES THEN W_All
             ELSE cleaned

normalize_powertrain(value) ==
    IF value = NaN \/ value = <<>> THEN W_All
    ELSE LET cleaned == GasolineReplaced(value)
         IN  IF Contains(cleaned, <<"|">>) THEN W_All
             ELSE IF Contains(cleaned, <<"/">>) THEN W_All
             ELSE IF StrLower(cleaned) \in MappingKeys THEN MappingGet(StrLower(cleaned))
             ELSE IF cleaned \notin VALID_TYPES THEN W_All
             ELSE cleaned

(***************************************************************************)
(* The DTC dataset: a table of records, as a pandas DataFrame in memory    *)
(* and as a CSV file on disk.  A record carries the two identity columns   *)
(* (code, make_id), the description the merge policies compare, and the    *)
(* powertrain_type the normalizer rewrites; the other seven columns are    *)
(* payload that the operations modelled here copy along with description.  *)
(***************************************************************************)
Fields == {"code", "make_id", "description", "powertrain_type"}

Row(code, make_id, description, powertrain_type) ==
    [code |-> code, make_id |-> make_id, description |-> description,
     powertrain_type |-> powertrain_type]

\* DataFrame.to_csv: a missing cell is written as the empty field
to_csv(df) ==
    [i \in 1..Len(df) |-> [f \in Fields |-> IF df[i][f] = NaN THEN <<>> ELSE df[i][f]]]

\* pd.read_csv: an empty field is read back as a missing cell
read_csv(file) ==
    [i \in 1..Len(file) |-> [f \in Fields |-> IF file[i][f] = <<>> THEN NaN ELSE file[i][f]]]

\* the subset=['code', 'make_id'] of drop_duplicates: exact, case-sensitive
ExactKey(r) == <<r.code, r.make_id>>

\* the identity key of the data model: (code upper-cased, make_id lower-cased)
IdentityKey(r) == <<StrUpper(r.code), StrLower(r.make_id)>>

\* drop_duplicates(subset=['code', 'make_id'], keep='first')
RECURSIVE drop_duplicates_first(_)
drop_duplicates_first(df) ==
    IF df = <<>> THEN <<>>
    ELSE LET init == drop_duplicates_first(SubSeq(df, 1, Len(df) - 1))
             last == df[Len(df)]
         IN  IF \E i \in 1..(Len(df) - 1) : ExactKey(df[i]) = ExactKey(last)
             THEN init
             ELSE Append(init, last)

\* a de-duplication that keeps the first occurrence where the last is meant
drop_duplicates_keep_first(df) == drop_duplicates_first(df)

\* drop_duplicates(subset=['code', 'make_id'], keep='last')
RECURSIVE drop_duplicates_last(_)
drop_duplicates_last(df) ==
    IF df = <<>> THEN <<>>
    ELSE IF \E i \in 2..Len(df) : ExactKey(df[i]) = ExactKey(Head(df))
         THEN drop_duplicates_last(Tail(df))
         ELSE <<Head(df)>> \o drop_duplicates_last(Tail(df))

\* ordering of one sort column: strings by code point, missing cells last
CellLess(a, b) == a # NaN /\ (b = NaN \/ StrLess(a, b))

\* ordering by ['make_id', 'code']
RowLess(a, b) ==
    \/ CellLess(a.make_id, b.make_id)
    \/ a.make_id = b.make_id /\ CellLess(a.code, b.code)

\* position of r among already sorted rows: after every row not greater than it
RECURSIVE InsertSorted(_, _)
InsertSorted(sorted, r) ==
    IF sorted = <<>> THEN <<r>>
    ELSE IF RowLess(r, Head(sorted)) THEN <<r>> \o sorted
    ELSE <<Head(sorted)>> \o InsertSorted(Tail(sorted), r)

\* df.sort_values(['make_id', 'code']): a stable multi-column sort
RECURSIVE sort_values(_)
sort_values(df) ==
    IF df = <<>> THEN <<>>
    ELSE InsertSorted(sort_values(SubSeq(df, 1, Len(df) - 1)), df[Len(df)])

\* load_existing_dtc_codes: output file first, then assets, first occurrence kept
load_existing_dtc_codes(output, assets) ==
    drop_duplicates_first(read_csv(output) \o read_csv(assets))

\* what save_dtc_codes writes: sorted, de-duplicated keeping the last occurrence
save_dtc_codes(df) == to_csv(drop_duplicates_last(sort_values(df)))

(***************************************************************************)
(* Quick import of new codes (no AI): quick_import_codes and the           *)
(* powertrain detection it calls.                                          *)
(***************************************************************************)
DieselKeywords ==
  { <<"g","l","o","w"," ","p","l","u","g">>,
    <<"d","p","f">>,
    <<"p","a","r","t","i","c","u","l","a","t","e">>,
    <<"e","g","r">>,
    <<"a","d","b","l","u","e">>,
    <<"d","e","f">>,
    <<"u","r","e","a">>,
    <<"n","o","x">>,
    <<"t","u","r","b","o">> }

ElectricKeywords ==
  { <<"h","i","g","h"," ","v","o","l","t","a","g","e">>,
    <<"h","v"," ","b","a","t","t","e","r","y">>,
    <<"c","h","a","r","g","i","n","g">>,
    <<"i","n","v","e","r","t","e","r">>,
    <<"t","r","a","c","t","i","o","n"," ","m","o","t","o","r">>,
    <<"d","c","/","d","c">> }

HybridKeywords ==
  { <<"h","y","b","r","i","d">>,
    <<"r","e","g","e","n","e","r","a","t">>,
    <<"m","o","t","o","r"," ","g","e","n","e","r","a","t","o","r">>,
    <<"m","g","1">>,
    <<"m","g","2">> }

PetrolKeywords ==
  { <<"s","p","a","r","k">>,
    <<"i","g","n","i","t","i","o","n"," ","c","o","i","l">>,
    <<"k","n","o","c","k"," ","s","e","n","s","o","r">>,
    <<"c","a","t","a","l","y","t","i","c"," ","c","o","n","v","e","r","t","e","r">> }

AnyKeywordIn(keywords, text) == \E kw \in keywords : Contains(text, kw)

\* detect_powertrain_from_code (the code argument is not read)
detect_powertrain_from_code(description) ==
    LET desc_lower == StrLower(description)
    IN  IF AnyKeywordIn(DieselKeywords, desc_lower) THEN W_Diesel
        ELSE IF AnyKeywordIn(ElectricKeywords, desc_lower) THEN W_Electric
        ELSE IF AnyKeywordIn(HybridKeywords, desc_lower) THEN W_PetrolHybrid
        ELSE IF AnyKeywordIn(PetrolKeywords, desc_lower) THEN W_Petrol
        ELSE W_All

\* quick_import_codes(codes_to_import, make_id): codes_to_import holds
\* <<code, description>> pairs; every row gets the one make_id passed in
quick_import_codes(codes_to_import, make_id) ==
    [i \in 1..Len(codes_to_import) |->
        Row(codes_to_import[i][1], make_id, codes_to_import[i][2],
            detect_powertrain_from_code(codes_to_import[i][2]))]

(***************************************************************************)
(* import_scraped_dtc_codes(df, scraped_df, enrich, update_existing)       *)
(***************************************************************************)
\* existing_keys: is there a row of df under this identity key
KeyExists(df, key) == \E i \in 1..Len(df) : IdentityKey(df[i]) = key

\* existing_keys[key]: the dict keeps the index of the last row with the key
ExistingIdx(df, key) ==
    CHOOSE i \in 1..Len(df) :
        /\ IdentityKey(df[i]) = key
        /\ \A j \in (i + 1)..Len(df) : IdentityKey(df[j]) # key

\* len(scraped_desc) > len(existing_desc) * 1.2, in tenths
LongerBy20Percent(scraped_desc, existing_desc) ==
    10 * Len(scraped_desc) > 12 * Len(existing_desc)

\* the rows of the scraped file whose key is not in existing_keys
IsNewCode(df, row) == ~KeyExists(df, IdentityKey(row))

\* the rows of the scraped file that go to codes_to_update
IsUpdate(df, row, update_existing) ==
    /\ KeyExists(df, IdentityKey(row))
    /\ update_existing
    /\ LongerBy20Percent(row.description, df[ExistingIdx(df, IdentityKey(row))].description)

\* new_codes: <<code upper-cased, description>> in file order
RECURSIVE NewCodes(_, _)
NewCodes(df, scraped) ==
    IF scraped = <<>> THEN <<>>
    ELSE (IF IsNewCode(df, Head(scraped))
          THEN << <<StrUpper(Head(scraped).code), Head(scraped).description>> >>
          ELSE <<>>) \o NewCodes(df, Tail(scraped))

\* codes_to_update: <<existing_idx, description>> in file order
RECURSIVE CodesToUpdate(_, _, _)
CodesToUpdate(df, scraped, update_existing) ==
    IF scraped = <<>> THEN <<>>
    ELSE (IF IsUpdate(df, Head(scraped), update_existing)
          THEN << <<ExistingIdx(df, IdentityKey(Head(scraped))), Head(scraped).description>> >>
          ELSE <<>>) \o CodesToUpdate(df, Tail(scraped), update_existing)

\* the loop over codes_to_update: df.loc[existing_idx, 'description'] = new_desc
RECURSIVE ApplyUpdates(_, _)
ApplyUpdates(df, updates) ==
    IF updates = <<>> THEN df
    ELSE ApplyUpdates([df EXCEPT ![Head(updates)[1]].description = Head(updates)[2]],
                      Tail(updates))

\* the answer of the enrichment service: none (call_openrouter returned None),
\* or the items of the JSON array in it
AiFailed == [answered |-> FALSE, items |-> <<>>]

AiAnswer(items) == [answered |-> TRUE, items |-> items]

\* does quick_import_codes run on the new codes (no enrichment, or no answer)
QuickImportRuns(enrich, response) == ~enrich \/ response = AiFailed

\* a missing code or make_id makes .upper() / .lower() raise; a missing
\* description makes len() raise when descriptions are compared, and
\* .lower() raise when quick_import_codes detects the powertrain
ImportRaises(df, scraped, enrich, response, update_existing) ==
    \/ scraped = <<>>
    \/ \E i \in 1..Len(df) : df[i].code = NaN \/ df[i].make_id = NaN
    \/ \E i \in 1..Len(scraped) : scraped[i].code = NaN \/ scraped[i].make_id = NaN
    \/ \E i \in 1..Len(scraped) :
          /\ scraped[i].code # NaN /\ scraped[i].make_id # NaN
          /\ \A k \in 1..Len(df) : df[k].code # NaN /\ df[k].make_id # NaN
          /\ \/ /\ IsNewCode(df, scraped[i])
                /\ scraped[i].description = NaN
                /\ QuickImportRuns(enrich, response)
             \/ /\ KeyExists(df, IdentityKey(scraped[i]))
                /\ update_existing
                /\ \/ scraped[i].description = NaN
                   \/ df[ExistingIdx(df, IdentityKey(scraped[i]))].description = NaN

\* enrich_codes_with_ai, as far as the response of the external service goes:
\* no response falls back to quick_import_codes, a JSON array is taken as is
\* and every item of it is stamped with make_id
new_rows_of(new_codes, make_id, enrich, response) ==
    IF QuickImportRuns(enrich, response)
    THEN quick_import_codes(new_codes, make_id)
    ELSE [i \in 1..Len(response.items) |-> [response.items[i] EXCEPT !.make_id = make_id]]

\* the result of import_scraped_dtc_codes: the returned frame and what it reports
import_scraped_dtc_codes(df, scraped, enrich, response, update_existing) ==
    LET make_id == StrLower(scraped[1].make_id)
        new_codes == NewCodes(df, scraped)
        codes_to_update == CodesToUpdate(df, scraped, update_existing)
        skipped_codes == Len(scraped) - Len(new_codes) - Len(codes_to_update)
        new_rows == IF new_codes = <<>> THEN <<>>
                    ELSE new_rows_of(new_codes, make_id, enrich, response)
    IN  IF new_codes = <<>> /\ codes_to_update = <<>>
        THEN [df |-> df, new_codes |-> 0, added |-> 0, updated |-> 0,
              skipped |-> skipped_codes, codes_added |-> 0]
        ELSE [df |-> sort_values(ApplyUpdates(df, codes_to_update) \o new_rows),
              new_codes |-> Len(new_codes),
              added |-> Len(new_rows),
              updated |-> Len(codes_to_update),
              skipped |-> skipped_codes,
              \* stats.codes_added += len(new_rows), then stats.add_codes adds it again
              codes_added |-> Len(new_rows) + Len(new_rows)]

(***************************************************************************)
(* cleanup_powertrain_data(df, remove_invalid_codes=True)                  *)
(***************************************************************************)
\* a mask that checks the digit and not the letter before it
valid_mask_any_letter(code) ==
    /\ code # NaN
    /\ Len(code) >= 2
    /\ IndexIn(code[2], Digits) > 0

\* df['code'].str.match(r'^[PBCU][0-9]', na=False)
valid_mask(code) ==
    /\ code # NaN
    /\ Len(code) >= 2
    /\ code[1] \in {"P", "B", "C", "U"}
    /\ IndexIn(code[2], Digits) > 0

\* invalid_codes = df[~valid_mask]
invalid_codes(df) == SelectSeq(df, LAMBDA r : ~valid_mask(r.code))

\* the sample print slices row['description'][:50] of the first five removed
\* rows; a missing description is a float and the slice raises TypeError
CleanupRaises(df) ==
    \E i \in 1..Len(invalid_codes(df)) :
        i <= 5 /\ invalid_codes(df)[i].description = NaN

\* the returned frame, the number of removed rows, and stats.codes_updated
cleanup_powertrain_data(df) ==
    LET kept == SelectSeq(df, LAMBDA r : valid_mask(r.code))
        normalized == [i \in 1..Len(kept) |->
                          [kept[i] EXCEPT !.powertrain_type = normalize_powertrain(@)]]
        total_changed == Cardinality({i \in 1..Len(kept) :
                            kept[i].powertrain_type # normalized[i].powertrain_type})
    IN  [df |-> normalized,
         removed |-> Len(invalid_codes(df)),
         codes_updated |-> Len(invalid_codes(df)) + total_changed]

(***************************************************************************)
(* import_all_generic_codes(df)                                            *)
(***************************************************************************)
SAFE_GENERIC_PREFIXES == { <<"P","0">>, <<"B","0">>, <<"C","0">>, <<"U","0">> }

W_generic == <<"g","e","n","e","r","i","c">>

\* the reference table load_reference_codes reads, keys upper-cased, in file
\* order: one generic code and one manufacturer-range code
REFERENCE_CODES ==
    << << <<"P","0","4","2","0">>, <<"x","y">> >>,
       << <<"P","1","1","0","1">>, <<"x">> >> >>

\* all_existing = set(df['code'].str.upper()): codes of every manufacturer
all_existing(df) == { StrUpper(df[i].code) : i \in 1..Len(df) }

\* generic_codes: reference codes not in all_existing, with a safe prefix
generic_codes(df) ==
    SelectSeq(REFERENCE_CODES,
              LAMBDA item : /\ StrUpper(item[1]) \notin all_existing(df)
                            /\ Slice(StrUpper(item[1]), 0, 2) \in SAFE_GENERIC_PREFIXES)

import_all_generic_codes(df) ==
    LET new_rows == quick_import_codes(generic_codes(df), W_generic)
    IN  [df |-> df \o new_rows, added |-> Len(new_rows)]

(***************************************************************************)
(* gui.py: the Add New Code form and the Upload CSV import                 *)
(***************************************************************************)
HexDigits == {"0","1","2","3","4","5","6","7","8","9",
              "A","B","C","D","E","F","a","b","c","d","e","f"}

\* DTC_PATTERN = ^[PBCU][0-3][0-9A-Fa-f]{3}$  ($ also matches before a final \n)
DTC_PATTERN(s) ==
    /\ s # NaN
    /\ Len(s) = 5 \/ (Len(s) = 6 /\ s[6] = "\n")
    /\ s[1] \in {"P", "B", "C", "U"}
    /\ s[2] \in {"0", "1", "2", "3"}
    /\ \A i \in 3..5 : s[i] \in HexDigits

\* gui.load_dtc_codes: the output file only
gui_load_dtc_codes(output) == read_csv(output)

\* gui.save_dtc_codes: df.to_csv as the frame stands, no sort, no de-duplication
gui_save_dtc_codes(df) == to_csv(df)

\* makes.csv as the form sees it: name -> id
makes_df ==
    { << <<"T","o","y","o","t","a">>, <<"t","o","y","o","t","a">> >>,
      << <<"H","o","n","d","a">>, <<"h","o","n","d","a">> >> }

\* the make_id of the Add form: the id of the selected name in makes_df,
\* else the typed text lower-cased with ' ' replaced by '_'
gui_make_id(selected_make_name) ==
    IF \E m \in makes_df : m[1] = selected_make_name
    THEN (CHOOSE m \in makes_df : m[1] = selected_make_name)[2]
    ELSE [i \in 1..Len(selected_make_name) |->
             IF selected_make_name[i] = " " THEN "_"
             ELSE CharLower(selected_make_name[i])]

\* new_code.upper() in dtc_df['code'].values: any owner
gui_code_exists(dtc_df, new_code) ==
    \E i \in 1..Len(dtc_df) : dtc_df[i].code = StrUpper(new_code)

\* the submitted Add form: "invalid", "exists" or "added", and the frame saved
gui_add_code(dtc_df, new_code, selected_make_name, new_description, new_powertrain) ==
    IF ~DTC_PATTERN(StrUpper(new_code))
    THEN [outcome |-> "invalid", df |-> dtc_df]
    ELSE IF gui_code_exists(dtc_df, new_code)
    THEN [outcome |-> "exists", df |-> dtc_df]
    ELSE [outcome |-> "added",
          df |-> Append(dtc_df, Row(StrUpper(new_code), gui_make_id(selected_make_name),
                                    new_description, new_powertrain))]

\* (dtc_df['code'] == row['code']) & (dtc_df['make_id'] == row['make_id']):
\* exact comparison, and a missing cell equals nothing
gui_exists(dtc_df, row) ==
    \E i \in 1..Len(dtc_df) :
        /\ dtc_df[i].code # NaN /\ dtc_df[i].code = row.code
        /\ dtc_df[i].make_id # NaN /\ dtc_df[i].make_id = row.make_id

\* the import loop over valid_df: [df, added, skipped]
RECURSIVE gui_import_loop(_, _, _)
gui_import_loop(acc, valid_df, skip_duplicates) ==
    IF valid_df = <<>> THEN acc
    ELSE IF skip_duplicates /\ gui_exists(acc.df, Head(valid_df))
         THEN gui_import_loop([acc EXCEPT !.skipped = @ + 1], Tail(valid_df), skip_duplicates)
         ELSE gui_import_loop([acc EXCEPT !.df = Append(@, Head(valid_df)), !.added = @ + 1],
                              Tail(valid_df), skip_duplicates)

\* the Upload CSV import with "Use manufacturer from file" ticked
gui_upload(dtc_df, upload_df, skip_duplicates) ==
    LET matching == SelectSeq(upload_df, LAMBDA r : DTC_PATTERN(StrUpper(r.code)))
        valid_df == [i \in 1..Len(matching) |->
                        [matching[i] EXCEPT !.code = StrUpper(@)]]
    IN  gui_import_loop([df |-> dtc_df, added |-> 0, skipped |-> 0],
                        valid_df, skip_duplicates)

(***************************************************************************)
(* generate_vehicles.py: add_dtc_codes_to_data and save_data               *)
(***************************************************************************)
\* existing = rows with code == code["code"] and make_id == the make_id argument
generator_exists(dtc_codes, item, make_id) ==
    \E i \in 1..Len(dtc_codes) :
        /\ dtc_codes[i].code # NaN /\ dtc_codes[i].code = item.code
        /\ dtc_codes[i].make_id # NaN /\ dtc_codes[i].make_id = make_id

\* the loop of add_dtc_codes_to_data: the item is appended as the service gave it
RECURSIVE add_dtc_codes_to_data(_, _, _)
add_dtc_codes_to_data(acc, codes, make_id) ==
    IF codes = <<>> THEN acc
    ELSE IF generator_exists(acc.df, Head(codes), make_id)
         THEN add_dtc_codes_to_data(acc, Tail(codes), make_id)
         ELSE add_dtc_codes_to_data([df |-> Append(acc.df, Head(codes)),
                                     added |-> acc.added + 1],
                                    Tail(codes), make_id)

\* save_data: data["dtc_codes"].to_csv, no sort, no de-duplication
save_data(dtc_codes) == to_csv(dtc_codes)

(***************************************************************************)
(* merge_to_json.py: merge_dtc_codes(dtc_csv) into the assets file          *)
(***************************************************************************)
\* load_csv / csv.DictReader: every cell is a string, an empty cell is ''
load_csv(file) == file

\* key = (row.get("code", ""), row.get("make_id", ""))
MergeKey(r) == <<r.code, r.make_id>>

\* the position of the first existing row with the key
FirstWithKey(rows, key) ==
    CHOOSE i \in 1..Len(rows) :
        /\ MergeKey(rows[i]) = key
        /\ \A j \in 1..(i - 1) : MergeKey(rows[j]) # key

\* the loop over dtc_csv: append an absent key, else replace the first match
RECURSIVE merge_loop(_, _)
merge_loop(acc, dtc_csv) ==
    IF dtc_csv = <<>> THEN acc
    ELSE LET row == Head(dtc_csv)
         IN  IF \A i \in 1..Len(acc.rows) : MergeKey(acc.rows[i]) # MergeKey(row)
             THEN merge_loop([acc EXCEPT !.rows = Append(@, row), !.new_codes = @ + 1],
                             Tail(dtc_csv))
             ELSE merge_loop([acc EXCEPT !.rows[FirstWithKey(acc.rows, MergeKey(row))] = row,
                                         !.updated_codes = @ + 1],
                             Tail(dtc_csv))

\* sort key (code, make_id) of list.sort
MergeLess(a, b) ==
    \/ StrLess(a.code, b.code)
    \/ a.code = b.code /\ StrLess(a.make_id, b.make_id)

RECURSIVE MergeInsert(_, _)
MergeInsert(sorted, r) ==
    IF sorted = <<>> THEN <<r>>
    ELSE IF MergeLess(r, Head(sorted)) THEN <<r>> \o sorted
    ELSE <<Head(sorted)>> \o MergeInsert(Tail(sorted), r)

\* existing_rows.sort(key=...): stable
RECURSIVE MergeSort(_)
MergeSort(rows) ==
    IF rows = <<>> THEN <<>>
    ELSE MergeInsert(MergeSort(SubSeq(rows, 1, Len(rows) - 1)), rows[Len(rows)])

merge_dtc_codes(assets, dtc_csv) ==
    LET merged == merge_loop([rows |-> assets, new_codes |-> 0, updated_codes |-> 0], dtc_csv)
    IN  [rows |-> MergeSort(merged.rows),
         new_codes |-> merged.new_codes,
         updated_codes |-> merged.updated_codes]

(***************************************************************************)
(* json.loads, as far as the recovery functions use it.  A decoded value   *)
(* is carried as its canonical text (compact separators, strings in their  *)
(* escaped form), so that two results are equal exactly when the Python    *)
(* values are.  Numbers are integers; \u escapes stay in escaped form.     *)
(***************************************************************************)
\* the whitespace the JSON decoder skips
JsonWs == {" ", "\t", "\n", "\r"}

\* \s of the re module
ReWs == {" ", "\t", "\n", "\r", "\f"}

\* s[i] with a 0-based index, or a marker past the end
CharAt(s, i) == IF i >= 0 /\ i < Len(s) THEN s[i + 1] ELSE "EOF"

RECURSIVE SkipWs(_, _, _)
SkipWs(s, i, ws) == IF CharAt(s, i) \in ws THEN SkipWs(s, i + 1, ws) ELSE i

W_null == <<"n","u","l","l">>
W_true == <<"t","r","u","e">>
W_false == <<"f","a","l","s","e">>
W_NaN == <<"N","a","N">>
W_Infinity == <<"I","n","f","i","n","i","t","y">>
W_code == <<"\"","c","o","d","e","\"">>
W_description == <<"\"","d","e","s","c","r","i","p","t","i","o","n","\"">>
W_powertrain_type ==
    <<"\"","p","o","w","e","r","t","r","a","i","n","_","t","y","p","e","\"">>

\* a failed decode (json.JSONDecodeError)
JsonFail == [ok |-> FALSE, end |-> 0, val |-> <<>>, kind |-> "error",
             keys |-> {}, items |-> <<>>]

JsonValue(end, val, kind, keys, items) ==
    [ok |-> TRUE, end |-> end, val |-> val, kind |-> kind, keys |-> keys, items |-> items]

JsonHex == {"0","1","2","3","4","5","6","7","8","9",
            "a","b","c","d","e","f","A","B","C","D","E","F"}

\* py_scanstring (strict): i is the index after the opening quote
RECURSIVE scanstring(_, _, _)
scanstring(s, i, acc) ==
    LET c == CharAt(s, i)
        esc == CharAt(s, i + 1)
    IN  IF i >= Len(s) THEN JsonFail
        ELSE IF c = "\"" THEN JsonValue(i + 1, <<"\"">> \o acc \o <<"\"">>, "string", {}, <<>>)
        ELSE IF c \in {"\n", "\t", "\r", "\f"} THEN JsonFail
        ELSE IF c # "\\" THEN scanstring(s, i + 1, Append(acc, c))
        ELSE IF esc = "/" THEN scanstring(s, i + 2, Append(acc, "/"))
        ELSE IF esc \in {"\"", "\\", "b", "f", "n", "r", "t"}
             THEN scanstring(s, i + 2, acc \o <<"\\", esc>>)
        ELSE IF esc = "u" /\ \A k \in 2..5 : CharAt(s, i + k) \in JsonHex
             THEN scanstring(s, i + 6, acc \o <<"\\", "u">> \o StrLower(Slice(s, i + 2, i + 6)))
        ELSE JsonFail

RECURSIVE SkipDigits(_, _)
SkipDigits(s, i) == IF IndexIn(CharAt(s, i), Digits) > 0 THEN SkipDigits(s, i + 1) ELSE i

\* NUMBER_RE, integer part: -?(?:0|[1-9]\d*); the end of the match, or -1
IntEnd(s, i) ==
    LET j == IF CharAt(s, i) = "-" THEN i + 1 ELSE i
    IN  IF CharAt(s, j) = "0" THEN j + 1
        ELSE IF IndexIn(CharAt(s, j), Digits) > 0 THEN SkipDigits(s, j)
        ELSE -1

\* int(text): -0 is 0
IntText(t) == IF t = <<"-", "0">> THEN <<"0">> ELSE t

\* ','.join(texts)
RECURSIVE JoinComma(_)
JoinComma(texts) ==
    IF texts = <<>> THEN <<>>
    ELSE IF Len(texts) = 1 THEN texts[1]
    ELSE texts[1] \o <<",">> \o JoinComma(Tail(texts))

\* dict(pairs): a repeated key keeps its first position and takes the last value
RECURSIVE DictOf(_)
DictOf(pairs) ==
    IF pairs = <<>> THEN <<>>
    ELSE LET init == DictOf(SubSeq(pairs, 1, Len(pairs) - 1))
             last == pairs[Len(pairs)]
         IN  IF \E k \in 1..Len(init) : init[k][1] = last[1]
             THEN [k \in 1..Len(init) |-> IF init[k][1] = last[1] THEN last ELSE init[k]]
             ELSE Append(init, last)

ObjectText(pairs) ==
    <<"{">> \o JoinComma([k \in 1..Len(DictOf(pairs)) |->
                            DictOf(pairs)[k][1] \o <<":">> \o DictOf(pairs)[k][2]])
            \o <<"}">>

RECURSIVE scan_once(_, _), JSONArray(_, _, _), JSONObject(_, _, _)
\* scanner.py_make_scanner._scan_once
scan_once(s, i) ==
    LET c == CharAt(s, i)
    IN  IF c = "\"" THEN scanstring(s, i + 1, <<>>)
        ELSE IF c = "{" THEN
            (IF CharAt(s, SkipWs(s, i + 1, JsonWs)) = "}"
             THEN JsonValue(SkipWs(s, i + 1, JsonWs) + 1, <<"{", "}">>, "object", {}, <<>>)
             ELSE JSONObject(s, SkipWs(s, i + 1, JsonWs), <<>>))
        ELSE IF c = "[" THEN
            (IF CharAt(s, SkipWs(s, i + 1, JsonWs)) = "]"
             THEN JsonValue(SkipWs(s, i + 1, JsonWs) + 1, <<"[", "]">>, "array", {}, <<>>)
             ELSE JSONArray(s, SkipWs(s, i + 1, JsonWs), <<>>))
        ELSE IF StartsAt(s, W_null, i) THEN JsonValue(i + 4, W_null, "literal", {}, <<>>)
        ELSE IF StartsAt(s, W_true, i) THEN JsonValue(i + 4, W_true, "literal", {}, <<>>)
        ELSE IF StartsAt(s, W_false, i) THEN JsonValue(i + 5, W_false, "literal", {}, <<>>)
        ELSE IF IntEnd(s, i) >= 0
             THEN JsonValue(IntEnd(s, i), IntText(Slice(s, i, IntEnd(s, i))), "number", {}, <<>>)
        ELSE IF StartsAt(s, W_NaN, i) THEN JsonValue(i + 3, W_NaN, "number", {}, <<>>)
        ELSE IF StartsAt(s, W_Infinity, i) THEN JsonValue(i + 8, W_Infinity, "number", {}, <<>>)
        ELSE IF StartsAt(s, <<"-">> \o W_Infinity, i)
             THEN JsonValue(i + 9, <<"-">> \o W_Infinity, "number", {}, <<>>)
        ELSE JsonFail

\* decoder.JSONArray after '[' and whitespace, the array not being empty
JSONArray(s, i, acc) ==
    LET v == scan_once(s, i)
        j == SkipWs(s, v.end, JsonWs)
    IN  IF ~v.ok THEN JsonFail
        ELSE IF CharAt(s, j) = "]"
             THEN JsonValue(j + 1, <<"[">> \o JoinComma(Append(acc, v.val)) \o <<"]">>,
                            "array", {}, Append(acc, v.val))
        ELSE IF CharAt(s, j) = ","
             THEN JSONArray(s, SkipWs(s, j + 1, JsonWs), Append(acc, v.val))
        ELSE JsonFail

\* decoder.JSONObject after '{' and whitespace, the object not being empty
JSONObject(s, i, acc) ==
    LET key == scanstring(s, i + 1, <<>>)
        colon == SkipWs(s, key.end, JsonWs)
        v == scan_once(s, SkipWs(s, colon + 1, JsonWs))
        j == SkipWs(s, v.end, JsonWs)
        pairs == Append(acc, <<key.val, v.val>>)
    IN  IF CharAt(s, i) # "\"" THEN JsonFail
        ELSE IF ~key.ok THEN JsonFail
        ELSE IF CharAt(s, colon) # ":" THEN JsonFail
        ELSE IF ~v.ok THEN JsonFail
        ELSE IF CharAt(s, j) = "}"
             THEN JsonValue(j + 1, ObjectText(pairs), "object",
                            {pairs[k][1] : k \in 1..Len(pairs)}, <<>>)
        ELSE IF CharAt(s, j) = ","
             THEN JSONObject(s, SkipWs(s, j + 1, JsonWs), pairs)
        ELSE JsonFail

\* json.loads(s): leading whitespace, one value, trailing whitespace, the end
json_loads(s) ==
    LET v == scan_once(s, SkipWs(s, 0, JsonWs))
    IN  IF v.ok /\ SkipWs(s, v.end, JsonWs) = Len(s) THEN v ELSE JsonFail

(***************************************************************************)
(* fill_dtc_gaps.py: parse_json_robustly(response)                         *)
(***************************************************************************)
\* a Python list of decoded values: its canonical text and its items
ListResult(items) ==
    [val |-> <<"[">> \o JoinComma(items) \o <<"]">>, items |-> items]

\* re.search(r'\[[\s\S]*\]', response).group(): from the first '[' to the
\* last ']'; NoMatch when there is none
NoMatch == <<"NoMatch">>

SearchArray(response) ==
    LET first == Find(response, <<"[">>, 0)
        last == RFind(response, <<"]">>)
    IN  IF first >= 0 /\ last > first THEN Slice(response, first, last + 1) ELSE NoMatch

\* re.search(r'\[[\s\S]*', response).group(): from the first '[' to the end
SearchArrayOpen(response) ==
    LET first == Find(response, <<"[">>, 0)
    IN  IF first >= 0 THEN Slice(response, first, Len(response)) ELSE NoMatch

\* the characters of text whose 0-based index is not in removed
WithoutIndexes(text, removed) ==
    LET indexed == [k \in 1..Len(text) |-> <<k - 1, text[k]>>]
        kept == SelectSeq(indexed, LAMBDA p : p[1] \notin removed)
    IN  [k \in 1..Len(kept) |-> kept[k][2]]

\* re.sub(r',\s*\]', ']', text): a comma followed by white space and ']'
\* goes, with the white space
SubCommaBracket(text) ==
    WithoutIndexes(text,
        { p \in 0..(Len(text) - 1) :
            \E q \in 0..p : /\ CharAt(text, q) = ","
                            /\ CharAt(text, SkipWs(text, q + 1, ReWs)) = "]"
                            /\ p < SkipWs(text, q + 1, ReWs) })

\* re.sub(r',(\s*[}\]])', r'\1', text): a comma followed by white space and
\* a closing bracket goes
SubTrailingComma(text) ==
    WithoutIndexes(text,
        { q \in 0..(Len(text) - 1) :
            /\ CharAt(text, q) = ","
            /\ CharAt(text, SkipWs(text, q + 1, ReWs)) \in {"}", "]"} })

\* strategy 1: the decoded array, or a failure
Strategy1(response) ==
    IF SearchArray(response) = NoMatch THEN JsonFail
    ELSE json_loads(SearchArray(response))

\* strategy 2: cut after the last '}', close the array, drop a comma before ']'
Strategy2(response) ==
    LET json_str == SearchArrayOpen(response)
        last_complete == RFind(json_str, <<"}">>)
        fixed_json == SubCommaBracket(Slice(json_str, 0, last_complete + 1) \o <<"]">>)
    IN  IF json_str = NoMatch THEN JsonFail
        ELSE IF last_complete > 0 THEN json_loads(fixed_json)
        ELSE JsonFail

\* "[^"]+" at i: the index after the closing quote, or -1
QuotedEnd(s, i) ==
    LET close == Find(s, <<"\"">>, i + 1)
    IN  IF CharAt(s, i) = "\"" /\ close > i + 1 THEN close + 1 ELSE -1

\* \{\s*"code"\s*:\s*"[^"]+"\s*, at i: the index after the comma, or -1
PatternHead(s, i) ==
    LET a == SkipWs(s, i + 1, ReWs)
        b == SkipWs(s, a + Len(W_code), ReWs)
        c == SkipWs(s, b + 1, ReWs)
        d == SkipWs(s, QuotedEnd(s, c), ReWs)
    IN  IF /\ CharAt(s, i) = "{"
           /\ StartsAt(s, W_code, a)
           /\ CharAt(s, b) = ":"
           /\ QuotedEnd(s, c) >= 0
           /\ CharAt(s, d) = ","
        THEN d + 1 ELSE -1

\* "powertrain_type"\s*:\s*"[^"]+"\s*\} at k: the index after the '}', or -1
PatternTail(s, k) ==
    LET b == SkipWs(s, k + Len(W_powertrain_type), ReWs)
        c == SkipWs(s, b + 1, ReWs)
        d == SkipWs(s, QuotedEnd(s, c), ReWs)
    IN  IF /\ StartsAt(s, W_powertrain_type, k)
           /\ CharAt(s, b) = ":"
           /\ QuotedEnd(s, c) >= 0
           /\ CharAt(s, d) = "}"
        THEN d + 1 ELSE -1

\* the pattern of strategy 3 at i, [\s\S]*? taking as little as it can:
\* the index after the match, or -1
PatternEnd(s, i) ==
    LET head == PatternHead(s, i)
    IN  IF head < 0 THEN -1
        ELSE IF \E k \in head..Len(s) : PatternTail(s, k) >= 0
             THEN PatternTail(s, CHOOSE k \in head..Len(s) :
                                    /\ PatternTail(s, k) >= 0
                                    /\ \A m \in head..(k - 1) : PatternTail(s, m) < 0)
        ELSE -1

\* re.findall(pattern, response): the matches, left to right, each search
\* starting where the last match ended
RECURSIVE FindAllObjects(_, _)
FindAllObjects(s, i) ==
    IF \E j \in i..(Len(s) - 1) : PatternEnd(s, j) >= 0
    THEN LET start == CHOOSE j \in i..(Len(s) - 1) :
                          /\ PatternEnd(s, j) >= 0
                          /\ \A m \in i..(j - 1) : PatternEnd(s, m) < 0
         IN  <<Slice(s, start, PatternEnd(s, start))>>
             \o FindAllObjects(s, PatternEnd(s, start))
    ELSE <<>>

\* strategy 3: the matches that decode and carry 'code' and 'description'
Strategy3(response) ==
    LET matches == FindAllObjects(response, 0)
        kept == SelectSeq(matches, LAMBDA m :
                    /\ json_loads(m).ok
                    /\ W_code \in json_loads(m).keys
                    /\ W_description \in json_loads(m).keys)
    IN  [k \in 1..Len(kept) |-> json_loads(kept[k]).val]

\* response.split('\n')
RECURSIVE SplitLines(_)
SplitLines(s) ==
    LET nl == Find(s, <<"\n">>, 0)
    IN  IF nl < 0 THEN <<s>>
        ELSE <<Slice(s, 0, nl)>> \o SplitLines(Slice(s, nl + 1, Len(s)))

\* line.count(c)
CountChar(line, c) == Cardinality({ k \in 1..Len(line) : line[k] = c })

\* '\n'.join(lines)
RECURSIVE JoinLines(_)
JoinLines(lines) ==
    IF lines = <<>> THEN <<>>
    ELSE IF Len(lines) = 1 THEN lines[1]
    ELSE lines[1] \o <<"\n">> \o JoinLines(Tail(lines))

\* 'code' in obj: a key of a dict, an item of a list, a part of a str; any
\* other value raises TypeError, which the bare except swallows
CodeIn(obj) ==
    \/ obj.kind = "object" /\ W_code \in obj.keys
    \/ obj.kind = "array" /\ \E k \in 1..Len(obj.items) : obj.items[k] = W_code
    \/ obj.kind = "string" /\ Contains(obj.val, <<"c","o","d","e">>)

\* the loop of strategy 4 over the lines
RECURSIVE LineLoop(_, _, _, _)
LineLoop(lines, brace_count, current_obj, objects) ==
    IF lines = <<>> THEN objects
    ELSE LET line == Head(lines)
             count == brace_count + CountChar(line, "{") - CountChar(line, "}")
             current == IF count > 0 \/ Contains(line, <<"{">>)
                        THEN Append(current_obj, line) ELSE current_obj
             obj == json_loads(SubTrailingComma(JoinLines(current)))
         IN  IF count = 0 /\ current # <<>>
             THEN LineLoop(Tail(lines), count, <<>>,
                           IF obj.ok /\ CodeIn(obj) THEN Append(objects, obj.val)
                           ELSE objects)
             ELSE LineLoop(Tail(lines), count, current, objects)

Strategy4(response) == LineLoop(SplitLines(response), 0, <<>>, <<>>)

parse_json_robustly(response) ==
    IF Strategy1(response).ok
    THEN [val |-> Strategy1(response).val, items |-> Strategy1(response).items]
    ELSE IF Strategy2(response).ok
    THEN [val |-> Strategy2(response).val, items |-> Strategy2(response).items]
    ELSE IF Strategy3(response) # <<>> THEN ListResult(Strategy3(response))
    ELSE IF Strategy4(response) # <<>> THEN ListResult(Strategy4(response))
    ELSE ListResult(<<>>)

(***************************************************************************)
(* generate_vehicles.py: repair_truncated_json and parse_json_response     *)
(***************************************************************************)
\* one character of the scan of repair_truncated_json: in_string,
\* escape_next, bracket_stack
BracketStep(st, c) ==
    LET top == IF st.bracket_stack = <<>> THEN "none"
               ELSE st.bracket_stack[Len(st.bracket_stack)]
        popped == SubSeq(st.bracket_stack, 1, Len(st.bracket_stack) - 1)
    IN  IF st.escape_next THEN [st EXCEPT !.escape_next = FALSE]
        ELSE IF c = "\\" THEN [st EXCEPT !.escape_next = TRUE]
        ELSE IF c = "\"" THEN [st EXCEPT !.in_string = ~@]
        ELSE IF st.in_string THEN st
        ELSE IF c \in {"[", "{"} THEN [st EXCEPT !.bracket_stack = Append(@, c)]
        ELSE IF c = "]" /\ top = "[" THEN [st EXCEPT !.bracket_stack = popped]
        ELSE IF c = "}" /\ top = "{" THEN [st EXCEPT !.bracket_stack = popped]
        ELSE st

\* the loop over the characters json_str[lo:hi], left to right.  The range is
\* halved and st is read before the right half is entered, so that the
\* evaluation stays shallow on long texts.
RECURSIVE BracketScan(_, _, _, _)
BracketScan(s, lo, hi, st) ==
    IF hi <= lo \/ DOMAIN st = {} THEN st
    ELSE IF hi = lo + 1 THEN BracketStep(st, CharAt(s, lo))
    ELSE BracketScan(s, (lo + hi) \div 2, hi, BracketScan(s, lo, (lo + hi) \div 2, st))

\* a closer for every bracket of the stack, innermost first
RECURSIVE Closers(_)
Closers(bracket_stack) ==
    IF bracket_stack = <<>> THEN <<>>
    ELSE <<IF bracket_stack[Len(bracket_stack)] = "[" THEN "]" ELSE "}">>
         \o Closers(SubSeq(bracket_stack, 1, Len(bracket_stack) - 1))

repair_truncated_json(text) ==
    LET json_str == Strip(text)
        st == BracketScan(json_str, 0, Len(json_str),
                          [in_string |-> FALSE, escape_next |-> FALSE, bracket_stack |-> <<>>])
        last_complete ==
            IF RFind(json_str, <<"}", ",", "\n">>) # -1 THEN RFind(json_str, <<"}", ",", "\n">>)
            ELSE IF RFind(json_str, <<"}", "\n">>) # -1 THEN RFind(json_str, <<"}", "\n">>)
            ELSE RFind(json_str, <<"}", ",">>)
    IN  IF ~(st.in_string \/ st.bracket_stack # <<>>) THEN json_str
        ELSE IF last_complete > 0
             THEN Slice(json_str, 0, last_complete + 1) \o Closers(st.bracket_stack)
        ELSE json_str \o (IF st.in_string THEN <<"\"">> ELSE <<>>)
                      \o Closers(st.bracket_stack)

\* the markdown fences of parse_json_response
Fence == <<BackTick, BackTick, BackTick>>

FenceJson == Fence \o <<"j","s","o","n">>

\* response[start:end].strip(), end being the next fence or the end of the text
Unfenced(response, start) ==
    IF Find(response, Fence, start) # -1
    THEN Strip(Slice(response, start, Find(response, Fence, start)))
    ELSE Strip(Slice(response, start, Len(response)))

StripFences(response) ==
    IF Contains(response, FenceJson)
    THEN Unfenced(response, Find(response, FenceJson, 0) + 7)
    ELSE IF Contains(response, Fence)
    THEN Unfenced(response, Find(response, Fence, 0) + 3)
    ELSE response

\* one character of the third attempt: a top-level {...} that closes at i
\* is decoded and kept when it decodes
ExtractStep(s, st, i) ==
    LET c == CharAt(s, i)
        obj == json_loads(Slice(s, st.obj_start, i + 1))
    IN  IF st.escape THEN [st EXCEPT !.escape = FALSE]
        ELSE IF c = "\\" THEN [st EXCEPT !.escape = TRUE]
        ELSE IF c = "\"" THEN [st EXCEPT !.in_str = ~@]
        ELSE IF st.in_str THEN st
        ELSE IF c = "{"
             THEN [st EXCEPT !.depth = @ + 1,
                             !.obj_start = IF st.depth = 0 THEN i ELSE @]
        ELSE IF c = "}"
             THEN (IF st.depth - 1 = 0 /\ st.obj_start # -1
                   THEN [st EXCEPT !.depth = 0, !.obj_start = -1,
                                   !.objects = IF obj.ok THEN Append(@, obj) ELSE @]
                   ELSE [st EXCEPT !.depth = @ - 1])
        ELSE st

\* the loop over response[lo:hi], left to right, halved like BracketScan
RECURSIVE ExtractObjects(_, _, _, _)
ExtractObjects(s, lo, hi, st) ==
    IF hi <= lo \/ DOMAIN st = {} THEN st
    ELSE IF hi = lo + 1 THEN ExtractStep(s, st, lo)
    ELSE ExtractObjects(s, (lo + hi) \div 2, hi, ExtractObjects(s, lo, (lo + hi) \div 2, st))

\* what parse_json_response returns: None, or the decoded value
PyNone == [val |-> W_null, kind |-> "none", items |-> <<>>]

Decoded(v) ==
    IF v.val = W_null THEN PyNone
    ELSE [val |-> v.val, kind |-> v.kind, items |-> v.items]

parse_json_response(text) ==
    LET response == StripFences(text)
        found == ExtractObjects(response, 0, Len(response),
                      [depth |-> 0, obj_start |-> -1, in_str |-> FALSE,
                       escape |-> FALSE, objects |-> <<>>]).objects
        objects == [k \in 1..Len(found) |-> found[k].val]
    IN  IF text = <<>> THEN PyNone
        ELSE IF json_loads(response).ok THEN Decoded(json_loads(response))
        ELSE IF json_loads(repair_truncated_json(response)).ok
             THEN Decoded(json_loads(repair_truncated_json(response)))
        ELSE IF StartsAt(Strip(response), <<"[">>, 0) /\ objects # <<>>
             THEN [val |-> ListResult(objects).val, kind |-> "array", items |-> objects]
        ELSE PyNone

(***************************************************************************)
(* fill_dtc_gaps.py: smart_import_manufacturer_codes, keyword stage, and   *)
(* classify_codes_with_ai                                                  *)
(***************************************************************************)
W_honda == <<"h","o","n","d","a">>
W_toyota == <<"t","o","y","o","t","a">>
W_bmw == <<"b","m","w">>
W_unknown == <<"u","n","k","n","o","w","n">>

\* MANUFACTURER_KEYWORDS, in the enumeration order of the dict: the first three
\* manufacturers with their keyword lists
MANUFACTURER_KEYWORDS ==
    << << W_honda,
          << <<"v","t","e","c">>,
             <<"v","v","t">>,
             <<"i","-","v","t","e","c">>,
             <<"v","t","c">>,
             <<"i","m","a">>,
             <<"i","-","m","m","d">>,
             <<"e",":","h","e","v">>,
             <<"v","s","a">>,
             <<"c","m","b","s">>,
             <<"l","k","a","s">>,
             <<"s","h","-","a","w","d">>,
             <<"h","o","n","d","a">>,
             <<"a","c","u","r","a">>,
             <<"c","l","a","r","i","t","y">>,
             <<"i","n","s","i","g","h","t">>,
             <<"a","c","c","o","r","d">>,
             <<"c","i","v","i","c">>,
             <<"c","r","-","v">>,
             <<"e","a","r","t","h"," ","d","r","e","a","m","s">>,
             <<"d","p","f"," ","r","e","g","e","n","e","r","a","t","i","o","n">>,
             <<"i","d","l","i","n","g"," ","s","t","o","p">> >> >>,
       << W_toyota,
          << <<"v","v","t","-","i">>,
             <<"v","v","t","-","i","e">>,
             <<"d","-","4","s">>,
             <<"d","-","4","s","t">>,
             <<"t","s","s">>,
             <<"t","o","y","o","t","a">>,
             <<"l","e","x","u","s">>,
             <<"p","r","i","u","s">>,
             <<"h","y","b","r","i","d"," ","s","y","n","e","r","g","y">>,
             <<"t","h","s">>,
             <<"t","h","s"," ","i","i">>,
             <<"e","c","v","t">>,
             <<"e","-","c","v","t">>,
             <<"c","a","m","r","y">>,
             <<"c","o","r","o","l","l","a">>,
             <<"r","a","v","4">>,
             <<"h","i","g","h","l","a","n","d","e","r">>,
             <<"s","m","a","r","t"," ","k","e","y">>,
             <<"s","t","a","r"," ","s","a","f","e","t","y">>,
             <<"e","n","t","u","n","e">> >> >>,
       << W_bmw,
          << <<"v","a","n","o","s">>,
             <<"v","a","l","v","e","t","r","o","n","i","c">>,
             <<"d","s","c">>,
             <<"d","d","e">>,
             <<"d","m","e">>,
             <<"i","h","k">>,
             <<"i","h","k","a">>,
             <<"c","a","s">>,
             <<"e","w","s">>,
             <<"b","m","w">>,
             <<"m","i","n","i">>,
             <<"r","o","l","l","s","-","r","o","y","c","e">>,
             <<"e","f","f","i","c","i","e","n","t"," ","d","y","n","a","m","i","c","s">>,
             <<"x","d","r","i","v","e">>,
             <<"i","d","r","i","v","e">>,
             <<"c","o","m","f","o","r","t"," ","a","c","c","e","s","s">>,
             <<"s","e","r","v","o","t","r","o","n","i","c">>,
             <<"a","c","t","i","v","e"," ","s","t","e","e","r","i","n","g">> >> >> >>

\* MANUFACTURER_KEYWORDS.get(make_id, [])
KeywordsOf(make_id) ==
    IF \E k \in 1..Len(MANUFACTURER_KEYWORDS) : MANUFACTURER_KEYWORDS[k][1] = make_id
    THEN MANUFACTURER_KEYWORDS[CHOOSE k \in 1..Len(MANUFACTURER_KEYWORDS) :
                                   MANUFACTURER_KEYWORDS[k][1] = make_id][2]
    ELSE <<>>

\* list(MANUFACTURER_KEYWORDS.keys())
AllManufacturers == [k \in 1..Len(MANUFACTURER_KEYWORDS) |-> MANUFACTURER_KEYWORDS[k][1]]

MANUFACTURER_SPECIFIC_PREFIXES ==
    { <<"P","1">>, <<"B","1">>, <<"C","1">>, <<"U","1">>,
      <<"P","2">>, <<"B","2">>, <<"C","2">>, <<"U","2">> }

\* mfr_specific_codes: the reference codes, upper-cased, whose two-character
\* prefix is manufacturer-specific, in the order of the reference table
mfr_specific_codes(reference) ==
    LET upper == [k \in 1..Len(reference) |->
                     <<StrUpper(reference[k][1]), reference[k][2]>>]
    IN  SelectSeq(upper, LAMBDA item :
                      Slice(item[1], 0, 2) \in MANUFACTURER_SPECIFIC_PREFIXES)

\* keyword.lower() in text.lower(): the lower-cased keyword is a substring
\* of the lower-cased text
LowerIn(keyword, text) ==
    \E off \in 0..(Len(text) - Len(keyword)) :
        \A j \in 1..Len(keyword) : CharLower(text[off + j]) = CharLower(keyword[j])

\* keyword.lower() in desc_lower or keyword.lower() in code_lower, for some
\* keyword of make_id
KeywordHit(item, make_id) ==
    LET keywords == KeywordsOf(make_id)
    IN  \E k \in 1..Len(keywords) :
            LowerIn(keywords[k], item[2]) \/ LowerIn(keywords[k], item[1])

\* the variant that lets the last matching manufacturer win
MatchedAt_last(item, manufacturers) ==
    IF \E i \in 1..Len(manufacturers) : KeywordHit(item, manufacturers[i])
    THEN CHOOSE i \in 1..Len(manufacturers) :
             /\ KeywordHit(item, manufacturers[i])
             /\ \A j \in (i + 1)..Len(manufacturers) : ~KeywordHit(item, manufacturers[j])
    ELSE 0

\* the position in manufacturers at which the inner loop breaks with
\* matched = True: the first manufacturer with a keyword hit; 0 when none
MatchedAt(item, manufacturers) ==
    IF \E i \in 1..Len(manufacturers) : KeywordHit(item, manufacturers[i])
    THEN CHOOSE i \in 1..Len(manufacturers) :
             /\ KeywordHit(item, manufacturers[i])
             /\ \A j \in 1..(i - 1) : ~KeywordHit(item, manufacturers[j])
    ELSE 0

\* keyword_matches after the loop over mfr_specific_codes: a list per
\* manufacturer, in the order of the codes
keyword_matches(codes, manufacturers) ==
    [m \in {manufacturers[i] : i \in 1..Len(manufacturers)} |->
        SelectSeq(codes, LAMBDA item :
            LET i == MatchedAt(item, manufacturers)
            IN  i # 0 /\ manufacturers[i] = m)]

\* unmatched_codes after the loop
unmatched_codes(codes, manufacturers) ==
    SelectSeq(codes, LAMBDA item : MatchedAt(item, manufacturers) = 0)

\* the values a decoded classification can hold under a code
AiStr(s) == [type |-> "str", s |-> s]
AiNull == [type |-> "null", s |-> <<>>]
AiNumber(s) == [type |-> "number", s |-> s]

\* truthiness of a decoded value (if make_id and ...)
Truthy(v) ==
    IF v.type = "str" THEN v.s # <<>>
    ELSE IF v.type = "number" THEN v.s # <<"0">>
    ELSE FALSE

\* what call_openrouter and the decoding of its text give for one batch:
\* no text, a text without a brace pair, a brace pair json.loads rejects,
\* or the decoded object as <<key, value>> pairs
AiNone == [kind |-> "none", pairs |-> <<>>]
AiNoJson == [kind |-> "no_json", pairs |-> <<>>]
AiBadJson == [kind |-> "bad_json", pairs |-> <<>>]
AiObject(pairs) == [kind |-> "object", pairs |-> pairs]

\* dict.get(key, default)
DictGet(pairs, key, default) ==
    IF \E k \in 1..Len(pairs) : pairs[k][1] = key
    THEN pairs[CHOOSE k \in 1..Len(pairs) :
                   /\ pairs[k][1] = key
                   /\ \A j \in (k + 1)..Len(pairs) : pairs[j][1] # key][2]
    ELSE default

BATCH_SIZE == 100

\* the response to the batch that holds the code at position p (from 1)
BatchResponse(responses, p) ==
    LET b == ((p - 1) \div BATCH_SIZE) + 1
    IN  IF b <= Len(responses) THEN responses[b] ELSE AiNone

\* classifications.get(code, classifications.get(code.upper(), 'unknown'))
ClassifiedAs(response, code) ==
    DictGet(response.pairs, code,
            DictGet(response.pairs, StrUpper(code), AiStr(W_unknown)))

\* is the answer for a code looked at (a decoded object came back)
Answered(responses, p) == BatchResponse(responses, p).kind = "object"

\* make_id.lower() on a value that is not a string raises AttributeError
LowerRaises(v) == Truthy(v) /\ v.type # "str"

\* the variant without the membership test
Accepted_any(v, manufacturers) == Truthy(v)

\* if make_id and make_id.lower() in manufacturers
Accepted(v, manufacturers) ==
    /\ Truthy(v)
    /\ \E i \in 1..Len(manufacturers) : manufacturers[i] = StrLower(v.s)

\* classify_codes_with_ai(unmatched_codes, manufacturers): raised is the
\* AttributeError that ends the call without a result; result is
\* all_classifications, a list per key
classify_codes_with_ai(unmatched, manufacturers, responses) ==
    LET value(p) == ClassifiedAs(BatchResponse(responses, p), unmatched[p][1])
        taken(p) == /\ Answered(responses, p)
                    /\ Accepted(value(p), manufacturers)
        positions == 1..Len(unmatched)
        keys == {manufacturers[i] : i \in 1..Len(manufacturers)} \cup
                {StrLower(value(p).s) : p \in {q \in positions : taken(q)}}
        raised == \E p \in positions : Answered(responses, p) /\ LowerRaises(value(p))
        Under(m) == {p \in positions : taken(p) /\ StrLower(value(p).s) = m}
        indexed == [p \in positions |-> <<p, unmatched[p]>>]
        Pick(m) == SelectSeq(indexed, LAMBDA x : x[1] \in Under(m))
    IN  [raised |-> raised,
         result |-> IF raised THEN [m \in {} |-> <<>>]
                    ELSE [m \in keys |-> [k \in 1..Len(Pick(m)) |-> Pick(m)[k][2]]]]

\* ai_matches of smart_import_manufacturer_codes: the classifier is asked
\* only when more than AI_THRESHOLD codes are unmatched
AI_THRESHOLD == 20

ai_matches(unmatched, manufacturers, responses) ==
    IF Len(unmatched) > AI_THRESHOLD
    THEN classify_codes_with_ai(unmatched, manufacturers, responses)
    ELSE [raised |-> FALSE,
          result |-> [m \in {manufacturers[i] : i \in 1..Len(manufacturers)} |-> <<>>]]

\* combined_matches per manufacturer: keyword_matches[make_id] +
\* ai_matches.get(make_id, [])
combined_matches(codes, manufacturers, responses) ==
    LET km == keyword_matches(codes, manufacturers)
        ai == ai_matches(unmatched_codes(codes, manufacturers), manufacturers, responses)
    IN  [raised |-> ai.raised,
         result |-> IF ai.raised THEN [m \in {} |-> <<>>]
                    ELSE [m \in DOMAIN km |->
                             km[m] \o (IF m \in DOMAIN ai.result THEN ai.result[m] ELSE <<>>)]]

(***************************************************************************)
(* call_openrouter of fill_dtc_gaps.py and of generate_vehicles.py, and    *)
(* the call counters of UsageStats / UsageTracker                          *)
(***************************************************************************)
\* how the completion request ends: a response with a success status, or a
\* requests.exceptions.RequestException (connection error, error status
\* raised by raise_for_status, timeout)
PrimaryResults == {"ok", "network_error", "http_error", "timeout"}

\* how the generation-detail lookup ends: status 200, another status, or a
\* RequestException raised by requests.get
SecondaryResults == {"ok", "non_success", "network_error", "timeout"}

\* one exchange with the service: generation_id is data.get("id") being
\* present, usage is data["usage"] being present and not empty, content is
\* the text of the first choice
Exchange(primary, generation_id, secondary, usage, content) ==
    [primary |-> primary, generation_id |-> generation_id, secondary |-> secondary,
     usage |-> usage, content |-> content]

CallStatsZero == [api_calls |-> 0, successful_calls |-> 0, failed_calls |-> 0,
                  estimated_calls |-> 0]

\* a variant that does not count the failed call
add_failed_call_uncounted(st) == st

add_failed_call(st) ==
    [st EXCEPT !.api_calls = @ + 1, !.failed_calls = @ + 1]

\* add_generation_stats(gen_data) with gen_data not empty
add_generation_stats(st) ==
    [st EXCEPT !.api_calls = @ + 1, !.successful_calls = @ + 1]

\* add_usage_fallback(usage_data): nothing is counted without usage data
add_usage_fallback(st, usage) ==
    IF ~usage THEN st
    ELSE [st EXCEPT !.api_calls = @ + 1, !.successful_calls = @ + 1,
                    !.estimated_calls = @ + 1]

\* what a call gives back: the content, or None
Returned(content, st) == [returned |-> TRUE, content |-> content, stats |-> st]

ReturnedNone(st) == [returned |-> FALSE, content |-> <<>>, stats |-> st]

\* fill_dtc_gaps.call_openrouter: the lookup runs inside the try block of the
\* completion request, so its RequestException reaches the same handler
call_openrouter(x, st) ==
    IF x.primary # "ok" THEN ReturnedNone(add_failed_call(st))
    ELSE IF x.generation_id
         THEN IF x.secondary = "ok" THEN Returned(x.content, add_generation_stats(st))
              ELSE IF x.secondary = "non_success"
                   THEN Returned(x.content, add_usage_fallback(st, x.usage))
              ELSE ReturnedNone(add_failed_call(st))
         ELSE Returned(x.content, add_usage_fallback(st, x.usage))

\* generate_vehicles.fetch_generation_stats: the data on status 200, None
\* after any other status or exception
fetch_generation_stats(x) == x.secondary = "ok"

\* generate_vehicles.call_openrouter, the response holding a choice
generator_call_openrouter(x, st) ==
    LET cost_tracked == x.generation_id /\ fetch_generation_stats(x)
    IN  IF x.primary # "ok" THEN ReturnedNone(add_failed_call(st))
        ELSE IF cost_tracked THEN Returned(x.content, add_generation_stats(st))
        ELSE Returned(x.content, add_usage_fallback(st, x.usage))

(***************************************************************************)
(* Idle values of the state not used by a specification.                   *)
(***************************************************************************)
NormIdle == [pc |-> "idle", value |-> <<>>, once |-> <<>>, twice |-> <<>>]

RecIdle == [pc |-> "idle", text |-> <<>>, complete |-> <<>>,
            robust |-> ListResult(<<>>), response |-> PyNone]

ClsIdle == [pc |-> "idle", codes |-> <<>>, manufacturers |-> <<>>, responses |-> <<>>,
            out |-> <<>>]

RunIdle == [pc |-> "idle"]

CallIdle == [pc |-> "idle"]

StatsZero == [codes_added |-> 0, codes_updated |-> 0]

\* the record of the last command: what it was given and what it reported
OpRec(kind) ==
    [kind |-> kind, n |-> 0, batch |-> <<>>, enrich |-> FALSE, response |-> AiFailed,
     update_existing |-> FALSE, D |-> <<>>, before |-> <<>>, raised |-> FALSE,
     outcome |-> "", added |-> 0, skipped |-> 0, updated |-> 0, removed |-> 0,
     again |-> FALSE]

OpNone == OpRec("none")

(***************************************************************************)
(* SpecNorm: the normalizer applied to a powertrain_type cell by a first   *)
(* and by a second cleanup pass (df['powertrain_type'].apply).             *)
(***************************************************************************)
MaxPad == 1

Spaces(n) == [i \in 1..n |-> " "]

Capitalized(s) == IF s = <<>> THEN s ELSE <<CharUpper(Head(s))>> \o Tail(s)

NormBases ==
    MappingKeys \cup VALID_TYPES \cup
    { W_gasoline,
      W_gasoline \o <<" ">> \o StrLower(W_Hybrid),
      W_gasoline \o <<"/">> \o StrLower(W_Diesel),
      W_Petrol \o <<"/">> \o W_Diesel,
      W_PetrolHybrid \o <<"|">> \o W_PlugInHybrid,
      <<"h","y","d","r","o","g","e","n">>,
      W_Petrol \o <<" ">> \o <<"t","u","r","b","o">>,
      <<"|">>,
      <<>> }

NormInputs ==
    {NaN} \cup
    { Spaces(l) \o c \o Spaces(r) :
        l \in 0..MaxPad, r \in 0..MaxPad,
        c \in UNION { {b, StrUpper(b), Capitalized(b)} : b \in NormBases } }

InitNorm ==
    /\ norm \in { [pc |-> "input", value |-> v, once |-> <<>>, twice |-> <<>>] : v \in NormInputs }
    /\ outputFile = <<>>
    /\ assetsFile = <<>>
    /\ stats = StatsZero
    /\ lastOp = OpNone
    /\ rec = RecIdle
    /\ cls = ClsIdle
    /\ run = RunIdle
    /\ call = CallIdle

NormalizeOnce ==
    /\ norm.pc = "input"
    /\ norm' = [norm EXCEPT !.pc = "once", !.once = normalize_powertrain(norm.value)]
    /\ UNCHANGED <<outputFile, assetsFile, stats, lastOp, rec, cls, run, call>>

NormalizeTwice ==
    /\ norm.pc = "once"
    /\ norm' = [norm EXCEPT !.pc = "twice", !.twice = normalize_powertrain(norm.once)]
    /\ UNCHANGED <<outputFile, assetsFile, stats, lastOp, rec, cls, run, call>>

NextNorm == NormalizeOnce \/ NormalizeTwice

SpecNorm == InitNorm /\ [][NextNorm]_vars

(***************************************************************************)
(* Spec: the dataset on disk under the commands that load it, change it    *)
(* and save it.  One action is one run of a command (load, operation,      *)
(* save).  lastOp records what the last command was given and reported.    *)
(***************************************************************************)
MaxRows == 2

MaxCommands == 3

T_P0420 == <<"P","0","4","2","0">>
T_p0420 == <<"p","0","4","2","0">>
T_P9000 == <<"P","9","0","0","0">>
T_X1 == <<"X","1">>
T_toyota == <<"t","o","y","o","t","a">>
T_Toyota == <<"T","o","y","o","t","a">>
T_honda == <<"h","o","n","d","a">>
T_Honda == <<"H","o","n","d","a">>
T_x == <<"x">>
T_xy == <<"x","y">>
T_xyz == <<"x","y","z">>
T_abcde == <<"a","b","c","d","e">>
T_abcdef == <<"a","b","c","d","e","f">>
T_EV == <<"E","V">>
T_Gasoline == Capitalized(W_gasoline)

\* scraped CSV files (code, make_id, description; '' is an empty cell):
\* one record; two manufacturers in one file; one key twice with a longer and
\* a shorter description; codes outside the DTC format; a key in other case;
\* an empty description; descriptions of five and of six characters; a
\* record without its code after a complete one
ScrapedFiles ==
    { << Row(T_P0420, T_toyota, T_x, <<>>) >>,
      << Row(T_P0420, T_toyota, T_x, <<>>), Row(T_P0420, T_honda, T_xy, <<>>) >>,
      << Row(T_P0420, T_toyota, T_xyz, <<>>), Row(T_P0420, T_toyota, T_xy, <<>>) >>,
      << Row(T_X1, T_toyota, T_x, <<>>), Row(T_P9000, T_toyota, T_x, <<>>) >>,
      << Row(T_p0420, T_Toyota, T_xy, <<>>) >>,
      << Row(T_P0420, T_honda, <<>>, <<>>) >>,
      << Row(T_P0420, T_toyota, T_abcde, <<>>) >>,
      << Row(T_P0420, T_toyota, T_abcdef, <<>>) >>,
      << Row(T_P0420, T_toyota, T_x, <<>>), Row(<<>>, T_toyota, T_xy, <<>>) >> }

\* what the enrichment service may answer: nothing, or one enriched item
AiResponses == { AiFailed, AiAnswer(<< Row(T_P0420, <<>>, T_xy, T_Gasoline) >>) }

\* <<enrich, response, update_existing>>: --merge-only with and without
\* --update-existing, and enrichment with and without an answer
ImportModes ==
    { <<FALSE, AiFailed, FALSE>>, <<FALSE, AiFailed, TRUE>> } \cup
    { <<TRUE, response, FALSE>> : response \in AiResponses }

\* uploaded CSV files
UploadFiles ==
    { << Row(T_p0420, T_toyota, T_x, W_All), Row(T_P0420, T_toyota, T_xy, T_EV) >>,
      << Row(T_P0420, T_Toyota, T_x, W_All), Row(T_X1, T_toyota, T_x, W_All) >>,
      << Row(T_P0420, T_toyota, <<>>, W_All) >> }

\* <<codes, make_id>>: what the generator's service returned for make_id
GeneratorAnswers ==
    { << << Row(T_P0420, T_toyota, T_x, T_Gasoline) >>, T_toyota >>,
      << << Row(T_p0420, T_toyota, T_xy, W_All) >>, T_toyota >>,
      << << Row(T_X1, T_toyota, <<>>, W_All) >>, T_toyota >>,
      << << Row(T_P0420, T_honda, T_x, W_All), Row(T_P0420, T_honda, T_xy, W_All) >>,
         T_toyota >> }

\* both CSV files exist and hold the header line only
Init ==
    /\ outputFile = <<>>
    /\ assetsFile = <<>>
    /\ stats = StatsZero
    /\ lastOp = OpNone
    /\ norm = NormIdle
    /\ rec = RecIdle
    /\ cls = ClsIdle
    /\ run = RunIdle
    /\ call = CallIdle

\* the record of a command that starts now
Started(kind, df) ==
    [OpRec(kind) EXCEPT !.n = lastOp.n + 1, !.D = df, !.before = outputFile]

\* fill_dtc_gaps.py --input <file> [--merge-only] [--update-existing]
ImportScraped ==
    \E batch \in ScrapedFiles, mode \in ImportModes :
        LET enrich == mode[1]
            response == mode[2]
            update_existing == mode[3]
            df == load_existing_dtc_codes(outputFile, assetsFile)
            scraped == read_csv(batch)
            op == [Started("import", df) EXCEPT
                     !.batch = batch, !.enrich = enrich, !.response = response,
                     !.update_existing = update_existing,
                     !.again = /\ lastOp.kind = "import"
                               /\ ~lastOp.raised
                               /\ lastOp.batch = batch
                               /\ lastOp.enrich = enrich
                               /\ lastOp.response = response
                               /\ lastOp.update_existing = update_existing]
            r == import_scraped_dtc_codes(df, scraped, enrich, response, update_existing)
            saved == save_dtc_codes(r.df)
        IN  /\ lastOp.n < MaxCommands
            /\ IF ImportRaises(df, scraped, enrich, response, update_existing)
               THEN /\ lastOp' = [op EXCEPT !.raised = TRUE]
                    /\ stats' = StatsZero
                    /\ UNCHANGED outputFile
               ELSE /\ Len(saved) <= MaxRows
                    /\ outputFile' = saved
                    /\ stats' = [codes_added |-> r.codes_added,
                                 codes_updated |-> r.updated]
                    /\ lastOp' = [op EXCEPT !.added = r.added, !.skipped = r.skipped,
                                            !.updated = r.updated]
            /\ UNCHANGED <<assetsFile, norm, rec, cls, run, call>>

\* fill_dtc_gaps.py --cleanup
Cleanup ==
    LET df == load_existing_dtc_codes(outputFile, assetsFile)
        op == Started("cleanup", df)
        r == cleanup_powertrain_data(df)
        saved == save_dtc_codes(r.df)
    IN  /\ lastOp.n < MaxCommands
        /\ IF CleanupRaises(df)
           THEN /\ lastOp' = [op EXCEPT !.raised = TRUE]
                /\ stats' = StatsZero
                /\ UNCHANGED <<outputFile, assetsFile>>
           ELSE /\ outputFile' = saved
                /\ assetsFile' = saved
                /\ stats' = [codes_added |-> 0, codes_updated |-> r.codes_updated]
                /\ lastOp' = [op EXCEPT !.removed = r.removed]
        /\ UNCHANGED <<norm, rec, cls, run, call>>

\* fill_dtc_gaps.py --import-generic-all
ImportGenericAll ==
    LET df == load_existing_dtc_codes(outputFile, assetsFile)
        r == import_all_generic_codes(df)
        saved == save_dtc_codes(r.df)
    IN  /\ lastOp.n < MaxCommands
        /\ Len(saved) <= MaxRows
        /\ outputFile' = saved
        /\ stats' = [codes_added |-> r.added, codes_updated |-> 0]
        /\ lastOp' = [Started("generic", df) EXCEPT !.added = r.added]
        /\ UNCHANGED <<assetsFile, norm, rec, cls, run, call>>

\* gui.py: the Add New Code form is submitted
GuiAdd ==
    \E new_code \in {T_p0420, T_X1}, selected_make_name \in {T_Toyota, T_Honda} :
        LET new_description == T_x
            new_powertrain == T_EV
            dtc_df == gui_load_dtc_codes(outputFile)
            r == gui_add_code(dtc_df, new_code, selected_make_name,
                              new_description, new_powertrain)
        IN  /\ lastOp.n < MaxCommands
            /\ Len(r.df) <= MaxRows
            /\ outputFile' = IF r.outcome = "added" THEN gui_save_dtc_codes(r.df)
                             ELSE outputFile
            /\ stats' = StatsZero
            /\ lastOp' = [Started("gui_add", dtc_df) EXCEPT
                            !.batch = << Row(StrUpper(new_code),
                                             gui_make_id(selected_make_name),
                                             new_description, new_powertrain) >>,
                            !.outcome = r.outcome,
                            !.added = IF r.outcome = "added" THEN 1 ELSE 0]
            /\ UNCHANGED <<assetsFile, norm, rec, cls, run, call>>

\* gui.py: Upload CSV, "Import Codes" pressed
GuiUpload ==
    \E batch \in UploadFiles, skip_duplicates \in BOOLEAN :
        LET dtc_df == gui_load_dtc_codes(outputFile)
            r == gui_upload(dtc_df, read_csv(batch), skip_duplicates)
        IN  /\ lastOp.n < MaxCommands
            /\ Len(r.df) <= MaxRows
            /\ outputFile' = gui_save_dtc_codes(r.df)
            /\ stats' = StatsZero
            /\ lastOp' = [Started("gui_upload", dtc_df) EXCEPT
                            !.batch = batch, !.update_existing = ~skip_duplicates,
                            !.added = r.added, !.skipped = r.skipped]
            /\ UNCHANGED <<assetsFile, norm, rec, cls, run, call>>

\* generate_vehicles.py: the DTC codes fetched for one manufacturer are added
\* and save_data runs
GeneratorAdd ==
    \E answer \in GeneratorAnswers :
        LET codes == answer[1]
            make_id == answer[2]
            dtc_codes == read_csv(outputFile)
            r == add_dtc_codes_to_data([df |-> dtc_codes, added |-> 0], codes, make_id)
        IN  /\ lastOp.n < MaxCommands
            /\ Len(r.df) <= MaxRows
            /\ outputFile' = save_data(r.df)
            /\ stats' = StatsZero
            /\ lastOp' = [Started("generator", dtc_codes) EXCEPT
                            !.batch = codes, !.added = r.added]
            /\ UNCHANGED <<assetsFile, norm, rec, cls, run, call>>

\* merge_to_json.py: the output file is merged into the assets file
MergeToAssets ==
    LET r == merge_dtc_codes(assetsFile, load_csv(outputFile))
    IN  /\ lastOp.n < MaxCommands
        /\ Len(r.rows) <= MaxRows
        /\ assetsFile' = r.rows
        /\ stats' = StatsZero
        /\ lastOp' = [Started("merge", assetsFile) EXCEPT
                        !.batch = outputFile, !.again = (lastOp.kind = "merge"),
                        !.added = r.new_codes, !.updated = r.updated_codes]
        /\ UNCHANGED <<outputFile, norm, rec, cls, run, call>>

Next ==
    \/ ImportScraped
    \/ Cleanup
    \/ ImportGenericAll
    \/ GuiAdd
    \/ GuiUpload
    \/ GeneratorAdd
    \/ MergeToAssets

Spec == Init /\ [][Next]_vars

(***************************************************************************)
(* SpecJson: the two recovery functions applied to a response text.  The   *)
(* texts are JSON documents, documents in markdown fences or prose, other  *)
(* text, and arrays of record objects cut anywhere inside the object that  *)
(* follows a comma.                                                        *)
(***************************************************************************)
\* {"code":"P1234","description":"foo"}
O_P1234 ==
    <<"{","\"","c","o","d","e","\"",":","\"","P","1","2","3","4","\"",",",
      "\"","d","e","s","c","r","i","p","t","i","o","n","\"",":","\"","f",
      "o","o","\"","}">>

\* {"code":"P1235","description":"bar"}
O_P1235 ==
    <<"{","\"","c","o","d","e","\"",":","\"","P","1","2","3","5","\"",",",
      "\"","d","e","s","c","r","i","p","t","i","o","n","\"",":","\"","b",
      "a","r","\"","}">>

\* {"code":"P2","description":"x}y"}
O_brace ==
    <<"{","\"","c","o","d","e","\"",":","\"","P","2","\"",",","\"","d","e",
      "s","c","r","i","p","t","i","o","n","\"",":","\"","x","}","y","\"","}">>

\* {"code":"P3","d":{"e":"f"},"g":["h"]}
O_nested ==
    <<"{","\"","c","o","d","e","\"",":","\"","P","3","\"",",","\"","d","\"",
      ":","{","\"","e","\"",":","\"","f","\"","}",",","\"","g","\"",":","[",
      "\"","h","\"","]","}">>

\* {"code":"P4","description":"a","powertrain_type":"All"}
O_full ==
    <<"{","\"","c","o","d","e","\"",":","\"","P","4","\"",",","\"","d","e",
      "s","c","r","i","p","t","i","o","n","\"",":","\"","a","\"",",","\"",
      "p","o","w","e","r","t","r","a","i","n","_","t","y","p","e","\"",":",
      "\"","A","l","l","\"","}">>

\* {"code":"P5","common_causes":["a","b"]}
V_obj_array ==
    <<"{","\"","c","o","d","e","\"",":","\"","P","5","\"",",","\"","c","o",
      "m","m","o","n","_","c","a","u","s","e","s","\"",":","[","\"","a",
      "\"",",","\"","b","\"","]","}">>

\* {"codes":[{"code":"P6"}]}
V_obj_wrapped ==
    <<"{","\"","c","o","d","e","s","\"",":","[","{","\"","c","o","d","e",
      "\"",":","\"","P","6","\"","}","]","}">>

\* [1]
V_scalars ==
    <<"[","1","]">>

\* "{code}"
V_string ==
    <<"\"","{","c","o","d","e","}","\"">>

\* []
V_empty ==
    <<"[","]">>

\* Here: [{"code":"P7","description":"a"}] ok
X_prose ==
    <<"H","e","r","e",":"," ","[","{","\"","c","o","d","e","\"",":","\"",
      "P","7","\"",",","\"","d","e","s","c","r","i","p","t","i","o","n",
      "\"",":","\"","a","\"","}","]"," ","o","k">>

\* x
X_garbage ==
    <<"x">>

\* {"a":"```"}
X_fence_in_string ==
    <<"{","\"","a","\"",":","\"",BackTick,BackTick,BackTick,"\"","}">>

\* {"code":"P8",\n"description":"a",}\n{"code":"P9"}
X_lines ==
    <<"{","\"","c","o","d","e","\"",":","\"","P","8","\"",",","\n","\"","d",
      "e","s","c","r","i","p","t","i","o","n","\"",":","\"","a","\"",",",
      "}","\n","{","\"","c","o","d","e","\"",":","\"","P","9","\"","}">>

\* [{"code":"P7"}] or [
X_two_arrays ==
    <<"[","{","\"","c","o","d","e","\"",":","\"","P","7","\"","}","]"," ",
      "o","r"," ","[">>

\* '[' and the objects, joined by sep, the array left open
RECURSIVE ArrayOpen(_, _)
ArrayOpen(objs, sep) ==
    IF Len(objs) = 1 THEN <<"[">> \o objs[1]
    ELSE ArrayOpen(SubSeq(objs, 1, Len(objs) - 1), sep) \o sep \o objs[Len(objs)]

ArrayText(objs, sep) == ArrayOpen(objs, sep) \o <<"]">>

\* <<the complete objects, the separator, the object that is cut>>
TruncationCases ==
    { << <<O_P1234>>, <<",">>, O_P1235 >>,
      << <<O_P1234>>, <<",">>, O_brace >>,
      << <<O_P1234>>, <<",">>, O_nested >>,
      << <<O_full, O_P1234>>, <<",">>, O_full >>,
      << <<O_P1234, O_P1235>>, <<",", "\n">>, O_P1234 >> }

\* a text with its complete part: the array of the objects before the cut
\* (empty when the text is not a cut array)
JsonInput(text, complete) == [text |-> text, complete |-> complete]

\* every cut of the last object: at least one character of it, never all
TruncatedInputs ==
    UNION { { JsonInput(ArrayOpen(c[1], c[2]) \o c[2] \o SubSeq(c[3], 1, n),
                        ArrayText(c[1], c[2])) : n \in 1..(Len(c[3]) - 1) } :
            c \in TruncationCases }

DocumentTexts ==
    { ArrayText(<<O_P1234>>, <<",">>),
      ArrayText(<<O_P1234, O_P1235>>, <<",">>),
      ArrayText(<<O_P1234, O_brace>>, <<",", "\n">>),
      ArrayText(<<O_nested, O_full>>, <<",">>),
      O_P1234, O_nested, O_full,
      V_obj_array, V_obj_wrapped, V_scalars, V_string, V_empty, W_null }

FencedTexts ==
    { FenceJson \o <<"\n">> \o d \o <<"\n">> \o Fence : d \in DocumentTexts } \cup
    { Fence \o <<"\n">> \o d \o <<"\n">> \o Fence : d \in DocumentTexts } \cup
    { FenceJson \o <<"\n">> \o d : d \in DocumentTexts }

OtherTexts == { <<>>, X_prose, X_garbage, X_fence_in_string, X_lines, X_two_arrays }

JsonInputs ==
    TruncatedInputs \cup
    { JsonInput(t, <<>>) : t \in DocumentTexts \cup FencedTexts \cup OtherTexts }

InitJson ==
    /\ rec \in { [pc |-> "input", text |-> in.text, complete |-> in.complete,
                  robust |-> ListResult(<<>>), response |-> PyNone] : in \in JsonInputs }
    /\ outputFile = <<>>
    /\ assetsFile = <<>>
    /\ stats = StatsZero
    /\ lastOp = OpNone
    /\ norm = NormIdle
    /\ cls = ClsIdle
    /\ run = RunIdle
    /\ call = CallIdle

\* fill_dtc_gaps.py recovers the records of the response
RecoverRobustly ==
    /\ rec.pc = "input"
    /\ rec' = [rec EXCEPT !.pc = "robust", !.robust = parse_json_robustly(rec.text)]
    /\ UNCHANGED <<outputFile, assetsFile, stats, lastOp, norm, cls, run, call>>

\* generate_vehicles.py parses the same response
RecoverResponse ==
    /\ rec.pc = "robust"
    /\ rec' = [rec EXCEPT !.pc = "done", !.response = parse_json_response(rec.text)]
    /\ UNCHANGED <<outputFile, assetsFile, stats, lastOp, norm, cls, run, call>>

NextJson == RecoverRobustly \/ RecoverResponse

SpecJson == InitJson /\ [][NextJson]_vars

(***************************************************************************)
(* Claims about the persisted dataset (checked under Spec).                *)
(***************************************************************************)
\* the identity keys of the rows of a CSV file
KeysOf(file) == { IdentityKey(file[i]) : i \in 1..Len(file) }

\* how many rows of a CSV file carry the identity key
CountKey(file, key) == Cardinality({ i \in 1..Len(file) : IdentityKey(file[i]) = key })

\* C1: the persisted DTC dataset never contains two distinct records whose
\* (code upper-cased, make_id lower-cased) pairs are equal.
C1_IdentityUniqueness ==
    \A i, j \in 1..Len(outputFile) :
        i # j => IdentityKey(outputFile[i]) # IdentityKey(outputFile[j])

\* C2: merging the same batch a second time (import_scraped_dtc_codes then
\* save, or merge_dtc_codes) leaves the persisted dataset exactly as the first
\* merge left it and reports added = 0.
C2_IdempotentMerge ==
    /\ (lastOp.kind = "import" /\ lastOp.again /\ ~lastOp.raised)
          => (outputFile = lastOp.before /\ lastOp.added = 0)
    /\ (lastOp.kind = "merge" /\ lastOp.again)
          => (assetsFile = lastOp.D /\ lastOp.added = 0)

\* the rows of the batch whose identity key is, or is not, in the dataset D
IncomingPresent(op) ==
    { i \in 1..Len(op.batch) : IdentityKey(op.batch[i]) \in KeysOf(op.D) }

IncomingAbsent(op) ==
    { i \in 1..Len(op.batch) : IdentityKey(op.batch[i]) \notin KeysOf(op.D) }

\* C3: under the skip policy (import without --update-existing, here without
\* enrichment, then save) every record of D whose key is in the batch is
\* persisted with every field unchanged and the batch record is counted as
\* skipped; every batch record whose key is absent from D is inserted once
\* and counted as added.  A one-record batch merged into the empty dataset
\* gives one record, added = 1, skipped = 0; merged again it gives one
\* record, added = 0, skipped = 1.
C3_SkipPolicy ==
    (lastOp.kind = "import" /\ ~lastOp.update_existing /\ ~lastOp.enrich /\ ~lastOp.raised) =>
        /\ \A i \in IncomingPresent(lastOp) : \A k \in 1..Len(lastOp.D) :
              IdentityKey(lastOp.D[k]) = IdentityKey(lastOp.batch[i])
                  => \E j \in 1..Len(outputFile) : read_csv(outputFile)[j] = lastOp.D[k]
        /\ lastOp.skipped = Cardinality(IncomingPresent(lastOp))
        /\ \A i \in IncomingAbsent(lastOp) :
              CountKey(outputFile, IdentityKey(lastOp.batch[i])) = 1
        /\ lastOp.added = Cardinality(IncomingAbsent(lastOp))
        /\ (Len(lastOp.batch) = 1 /\ lastOp.D = <<>>)
              => (Len(outputFile) = 1 /\ lastOp.added = 1 /\ lastOp.skipped = 0)
        /\ (Len(lastOp.batch) = 1 /\ lastOp.again)
              => (Len(outputFile) = Len(lastOp.before) /\ lastOp.added = 0
                  /\ lastOp.skipped = 1)

\* C4: a record (c, o2) can be inserted while (c, o1) exists: the Add form
\* accepts a well-formed code whose (code, owner) key is not in the dataset,
\* and the reference import adds every safe-prefix reference code whose
\* (code, generic) key is not in the dataset; neither rejects a record only
\* because the code exists under another owner.
C4_SameCodeOtherOwner ==
    /\ (lastOp.kind = "gui_add" /\ DTC_PATTERN(lastOp.batch[1].code)
        /\ IdentityKey(lastOp.batch[1]) \notin KeysOf(lastOp.D))
          => (lastOp.outcome = "added"
              /\ IdentityKey(lastOp.batch[1]) \in KeysOf(outputFile))
    /\ lastOp.kind = "generic"
          => \A i \in 1..Len(REFERENCE_CODES) :
                Slice(REFERENCE_CODES[i][1], 0, 2) \in SAFE_GENERIC_PREFIXES
                    => <<REFERENCE_CODES[i][1], W_generic>> \in KeysOf(outputFile)

\* ^[PBCU][0-3][0-9A-F]{3}[A-Z]?$
IdentityFormat(code) ==
    /\ Len(code) \in {5, 6}
    /\ code[1] \in {"P", "B", "C", "U"}
    /\ code[2] \in {"0", "1", "2", "3"}
    /\ \A i \in 3..5 : code[i] \in {"0","1","2","3","4","5","6","7","8","9",
                                    "A","B","C","D","E","F"}
    /\ Len(code) = 6 => IndexIn(code[6], UpperAlpha) > 0

\* the rows of D that the cleanup did not persist
RemovedByCleanup(op) ==
    { k \in 1..Len(op.D) :
        \A j \in 1..Len(outputFile) :
            ExactKey(read_csv(outputFile)[j]) # ExactKey(op.D[k]) }

C6_NormalizerIdempotent ==
    norm.pc = "twice" => norm.twice = norm.once

\* C6 witness: a value that the first pass really changed (a padded, upper-case
\* synonym) has gone through both passes.
C6_Witness ==
    /\ norm.pc = "twice"
    /\ norm.value = <<" ">> \o StrUpper(W_gasoline) \o <<" ">>
    /\ norm.once = W_Petrol
    /\ norm.twice = W_Petrol

\* C7: normalize_powertrain always returns a member of the closed set; a
\* missing or empty value, a value containing '|' or '/', and a value the
\* case-insensitive synonym lookup does not recognise give All; 'Gasoline'
\* gives Petrol.
C7_NormalizerClosedSet ==
    norm.pc \in {"once", "twice"} =>
        /\ norm.once \in VALID_TYPES
        /\ (norm.value = NaN \/ norm.value = <<>>) => norm.once = W_All
        /\ (norm.value # NaN /\ (\E i \in 1..Len(norm.value) : norm.value[i] \in {"|", "/"}))
              => norm.once = W_All
        /\ (norm.value # NaN /\ StrLower(GasolineReplaced(norm.value)) \notin MappingKeys)
              => norm.once = W_All
        /\ norm.value = Capitalized(W_gasoline) => norm.once = W_Petrol
        /\ norm.value = W_Petrol \o <<"/">> \o W_Diesel => norm.once = W_All

\* C7 witness: 'Gasoline' has been normalized to Petrol.
C7_Witness ==
    /\ norm.pc = "once"
    /\ norm.value = Capitalized(W_gasoline)
    /\ norm.once = W_Petrol


(***************************************************************************)
(* Claims about the recovery of a response text (SpecJson)                 *)
(***************************************************************************)
\* every item of a decoded list is an object (a record mapping)
AllMappings(items) == \A k \in 1..Len(items) : Head(items[k]) = "{"

\* the text decodes, as a plain json.loads, to an object or to an array of
\* objects
IsDocument(text) ==
    /\ json_loads(text).ok
    /\ \/ json_loads(text).kind = "object"
       \/ json_loads(text).kind = "array" /\ AllMappings(json_loads(text).items)

\* the text of the scenario: an array cut in the middle of its second object
ScenarioText == ArrayOpen(<<O_P1234>>, <<",">>) \o <<",">> \o SubSeq(O_P1235, 1, 21)

\* C8: for every text, both recovery functions return a sequence of record
\* mappings, the empty sequence when nothing was recovered.
C8_RecoveryContract ==
    rec.pc = "done" =>
        /\ AllMappings(rec.robust.items)
        /\ rec.response.kind = "array"
        /\ AllMappings(rec.response.items)

\* C9: for a text that is valid JSON (an object, or an array of objects), both
\* recovery functions return exactly what a plain parse of the text returns.
C9_ValidJsonExact ==
    rec.pc = "done" /\ IsDocument(rec.text) =>
        /\ rec.robust.val = json_loads(rec.text).val
        /\ rec.response.val = json_loads(rec.text).val

\* C10: for an array of k >= 1 complete objects, a comma and an object cut
\* anywhere inside it, both recovery functions return exactly the k complete
\* objects in their order; the scenario text yields the one record P1234.
C10_TruncatedArray ==
    rec.pc = "done" /\ rec.complete # <<>> =>
        /\ rec.robust.val = json_loads(rec.complete).val
        /\ rec.response.val = json_loads(rec.complete).val
        /\ rec.text = ScenarioText =>
               /\ rec.robust.items = <<O_P1234>>
               /\ rec.response.items = <<O_P1234>>

(***************************************************************************)
(* SpecClassify: the two stages that assign reference codes to             *)
(* manufacturers.  A state holds a list of <<code, description>> pairs, a   *)
(* candidate list and the classifier's answers; one action applies         *)
(* classify_codes_with_ai to the list, the other the keyword stage, the    *)
(* classifier stage and the combination of smart_import_manufacturer_codes.*)
(***************************************************************************)
MaxCodes == 2

MaxCandidates == 2

T_P1601 == <<"P","1","6","0","1">>
T_Scenario == <<"P","C","M"," ","c","o","m","m","u","n","i","c","a","t","i","o","n"," ","e","r","r","o","r"," ","u","s","i","n","g"," ","V","T","E","C"," ","s","o","l","e","n","o","i","d">>
T_P1349 == <<"P","1","3","4","9">>
T_VvtiSystem == <<"V","V","T","-","i"," ","s","y","s","t","e","m">>
T_P1DDE == <<"P","1","D","D","E">>
T_VTEC == <<"V","T","E","C">>
T_p1000 == <<"p","1","0","0","0">>
T_P1000 == <<"P","1","0","0","0">>
T_ford == <<"f","o","r","d">>
T_five == <<"5">>

\* reference entries: the scenario of the keyword stage, a description with
\* keywords of two manufacturers, a keyword inside the code, a generic code,
\* and a code no keyword matches
CodePairs ==
    { <<T_P1601, T_Scenario>>, <<T_P1349, T_VvtiSystem>>, <<T_P1DDE, T_x>>,
      <<T_P0420, T_VTEC>>, <<T_p1000, T_x>> }

\* more codes without a keyword than the classifier threshold: P1900, P1901, ...
FillerCodes ==
    [k \in 1..(AI_THRESHOLD + 1) |->
        << <<"P","1","9", Digits[((k - 1) \div 10) + 1], Digits[((k - 1) % 10) + 1]>>, T_x >>]

T_P1900 == FillerCodes[1][1]

\* lists without repetition of at most n members of a set
ListsOf(S, n) ==
    UNION { { s \in [1..k -> S] : \A i, j \in 1..k : i # j => s[i] # s[j] } : k \in 0..n }

CodeLists ==
    ListsOf(CodePairs, MaxCodes) \cup { FillerCodes, <<<<T_P1601, T_Scenario>>>> \o FillerCodes }

CandidateLists ==
    ListsOf({W_honda, W_toyota, W_bmw}, MaxCandidates) \cup { AllManufacturers }

\* what the classifier answers to the first batch
ClassifierAnswers ==
    { AiNone, AiNoJson, AiBadJson, AiObject(<<>>),
      AiObject(<< <<T_P1000, AiStr(W_honda)>> >>),
      AiObject(<< <<T_P1000, AiStr(T_Honda)>> >>),
      AiObject(<< <<T_P1000, AiStr(W_unknown)>> >>),
      AiObject(<< <<T_P1000, AiStr(T_ford)>> >>),
      AiObject(<< <<T_P1000, AiNull>> >>),
      AiObject(<< <<T_P1000, AiNumber(T_five)>> >>),
      AiObject(<< <<T_P1601, AiStr(W_honda)>>, <<T_P1000, AiStr(W_bmw)>> >>),
      AiObject(<< <<T_P1900, AiStr(W_toyota)>>, <<T_P1601, AiStr(W_bmw)>> >>) }

ClsOut(raised, result, km, unmatched) ==
    [raised |-> raised, result |-> result, keyword_matches |-> km, unmatched |-> unmatched]

NoLists == [m \in {} |-> <<>>]

InitClassify ==
    /\ outputFile = <<>>
    /\ assetsFile = <<>>
    /\ stats = StatsZero
    /\ lastOp = OpNone
    /\ norm = NormIdle
    /\ rec = RecIdle
    /\ run = RunIdle
    /\ call = CallIdle
    /\ \E codes \in CodeLists, manufacturers \in CandidateLists, answer \in ClassifierAnswers :
           cls = [pc |-> "input", codes |-> codes, manufacturers |-> manufacturers,
                  responses |-> <<answer>>, out |-> ClsOut(FALSE, NoLists, NoLists, <<>>)]

\* classify_codes_with_ai(codes, manufacturers)
ClassifyWithAi ==
    /\ cls.pc = "input"
    /\ LET r == classify_codes_with_ai(cls.codes, cls.manufacturers, cls.responses)
       IN  cls' = [cls EXCEPT !.pc = "classified",
                              !.out = ClsOut(r.raised, r.result, NoLists, <<>>)]
    /\ UNCHANGED <<outputFile, assetsFile, stats, lastOp, norm, rec, run, call>>

\* smart_import_manufacturer_codes up to the combined matches, the reference
\* table holding cls.codes
SmartClassify ==
    /\ cls.pc = "input"
    /\ LET codes == mfr_specific_codes(cls.codes)
           r == combined_matches(codes, cls.manufacturers, cls.responses)
       IN  cls' = [cls EXCEPT !.pc = "smart",
                              !.out = ClsOut(r.raised, r.result,
                                             keyword_matches(codes, cls.manufacturers),
                                             unmatched_codes(codes, cls.manufacturers))]
    /\ UNCHANGED <<outputFile, assetsFile, stats, lastOp, norm, rec, run, call>>

NextClassify == ClassifyWithAi \/ SmartClassify

SpecClassify == InitClassify /\ [][NextClassify]_vars

(***************************************************************************)
(* Claims about the classification stages (SpecClassify).                  *)
(***************************************************************************)
CandidateSet == {cls.manufacturers[i] : i \in 1..Len(cls.manufacturers)}

\* the codes listed under some owner of a classification
ListedCodes(result) ==
    UNION { {result[m][k][1] : k \in 1..Len(result[m])} : m \in DOMAIN result }

\* the classifier's answer names a candidate for the code (under the code as
\* given or upper-cased)
NamesCandidate(code) ==
    \E k \in 1..Len(cls.responses[1].pairs) :
        /\ cls.responses[1].pairs[k][1] \in {code, StrUpper(code)}
        /\ cls.responses[1].pairs[k][2].type = "str"
        /\ StrLower(cls.responses[1].pairs[k][2].s) \in CandidateSet

\* the keyword occurs, case-insensitively, somewhere in the text
OccursIn(keyword, text) ==
    \E off \in 0..(Len(text) - Len(keyword)) :
        StrLower(SubSeq(text, off + 1, off + Len(keyword))) = StrLower(keyword)

\* make_id has a keyword occurring in the description or in the code
HasKeyword(item, make_id) ==
    \E n \in 1..Len(MANUFACTURER_KEYWORDS) :
        /\ MANUFACTURER_KEYWORDS[n][1] = make_id
        /\ \E k \in 1..Len(MANUFACTURER_KEYWORDS[n][2]) :
               \/ OccursIn(MANUFACTURER_KEYWORDS[n][2][k], item[2])
               \/ OccursIn(MANUFACTURER_KEYWORDS[n][2][k], item[1])

\* C11: whatever the codes, the candidates and the classifier's answer, a
\* classification that is returned holds only owner keys of the candidate
\* list, and a code the classifier maps to "unknown", to a manufacturer
\* outside the candidates, or does not mention is listed under no owner
\* (in the one-pass import: unless a keyword of a candidate matched it).
C11_ConservativeClassification ==
    (cls.pc \in {"classified", "smart"} /\ ~cls.out.raised) =>
        /\ DOMAIN cls.out.result \subseteq CandidateSet
        /\ cls.pc = "classified" =>
               \A p \in 1..Len(cls.codes) :
                   ~NamesCandidate(cls.codes[p][1]) =>
                       cls.codes[p][1] \notin ListedCodes(cls.out.result)
        /\ cls.pc = "smart" =>
               \A p \in 1..Len(cls.out.unmatched) :
                   ~NamesCandidate(cls.out.unmatched[p][1]) =>
                       cls.out.unmatched[p][1] \notin ListedCodes(cls.out.result)

\* the classifier was asked about two codes, placed one under a candidate
\* and answered a manufacturer outside the candidates for the other
C11_Witness ==
    /\ cls.pc = "classified"
    /\ ~cls.out.raised
    /\ Len(cls.codes) = 2
    /\ \E p, q \in 1..2 :
           /\ cls.codes[p][1] \in ListedCodes(cls.out.result)
           /\ cls.codes[q][1] \notin ListedCodes(cls.out.result)
           /\ \E k \in 1..Len(cls.responses[1].pairs) :
                  /\ cls.responses[1].pairs[k][1] = StrUpper(cls.codes[q][1])
                  /\ cls.responses[1].pairs[k][2] = AiStr(W_bmw)
                  /\ W_bmw \notin CandidateSet

\* C12: in the keyword stage a code is listed under exactly the first
\* candidate, in the order of the candidate list, one of whose keywords
\* occurs case-insensitively in its description or in the code, and is then
\* not unmatched; a code no candidate's keyword occurs in is listed under
\* none and is unmatched.  (P1601, 'PCM communication error using VTEC
\* solenoid') with candidates honda, toyota is listed under honda.
C12_KeywordStage ==
    cls.pc = "smart" =>
        LET codes == mfr_specific_codes(cls.codes)
            km == cls.out.keyword_matches
            Codes(list) == {list[k] : k \in 1..Len(list)}
            Hits(item) == {i \in 1..Len(cls.manufacturers) :
                               HasKeyword(item, cls.manufacturers[i])}
            First(item) == CHOOSE i \in Hits(item) : \A j \in Hits(item) : i <= j
        IN  /\ \A p \in 1..Len(codes) :
                   IF Hits(codes[p]) = {}
                   THEN /\ codes[p] \in Codes(cls.out.unmatched)
                        /\ \A m \in DOMAIN km : codes[p] \notin Codes(km[m])
                   ELSE /\ codes[p] \notin Codes(cls.out.unmatched)
                        /\ \A m \in DOMAIN km :
                               codes[p] \in Codes(km[m]) <=>
                                   m = cls.manufacturers[First(codes[p])]
            /\ (cls.codes = << <<T_P1601, T_Scenario>> >> /\
                cls.manufacturers = <<W_honda, W_toyota>>) =>
                   km[W_honda] = << <<T_P1601, T_Scenario>> >>

\* a description with keywords of both candidates goes to toyota, which the
\* candidate list names first, although honda is enumerated first in the
\* keyword table
C12_Witness ==
    /\ cls.pc = "smart"
    /\ cls.manufacturers = <<W_toyota, W_honda>>
    /\ HasKeyword(<<T_P1349, T_VvtiSystem>>, W_honda)
    /\ HasKeyword(<<T_P1349, T_VvtiSystem>>, W_toyota)
    /\ cls.out.keyword_matches[W_toyota] = << <<T_P1349, T_VvtiSystem>> >>
    /\ cls.out.keyword_matches[W_honda] = <<>>

\* C13: in update mode (import of a one-record file with --update-existing,
\* then save) the description of the one existing record is replaced by the
\* incoming one if and only if the incoming description has at least 1.2
\* times the characters of the existing one; otherwise the record is
\* persisted unchanged and the incoming record is counted as skipped.
AtLeast20PercentLonger(new, old) == 10 * Len(new) >= 12 * Len(old)

C13_ConditionalReplace ==
    (/\ lastOp.kind = "import" /\ lastOp.update_existing /\ ~lastOp.raised
     /\ Len(lastOp.batch) = 1
     /\ CountKey(lastOp.D, IdentityKey(lastOp.batch[1])) = 1) =>
        LET old == lastOp.D[CHOOSE k \in 1..Len(lastOp.D) :
                                IdentityKey(lastOp.D[k]) = IdentityKey(lastOp.batch[1])]
            new == lastOp.batch[1].description
        IN  IF AtLeast20PercentLonger(new, old.description)
            THEN /\ \E j \in 1..Len(outputFile) :
                        read_csv(outputFile)[j] = [old EXCEPT !.description = new]
                 /\ lastOp.updated = 1 /\ lastOp.skipped = 0
            ELSE /\ \E j \in 1..Len(outputFile) : read_csv(outputFile)[j] = old
                 /\ lastOp.updated = 0 /\ lastOp.skipped = 1

\* C14: under the replace policy of the CSV-to-assets merge an empty
\* incoming field never blanks out a value: a field of a merged assets
\* record is non-empty whenever the record that existed under its key, or
\* an incoming record with its key, has a value for that field.
C14_ReplaceNonEmptyOnly ==
    lastOp.kind = "merge" =>
        \A j \in 1..Len(assetsFile) : \A f \in Fields :
            LET existing == { k \in 1..Len(lastOp.D) :
                                  MergeKey(lastOp.D[k]) = MergeKey(assetsFile[j]) }
                incoming == { i \in 1..Len(lastOp.batch) :
                                  MergeKey(lastOp.batch[i]) = MergeKey(assetsFile[j]) }
            IN  (\/ \E k \in existing : lastOp.D[k][f] # <<>>
                 \/ \E i \in incoming : lastOp.batch[i][f] # <<>>)
                    => assetsFile[j][f] # <<>>

\* C15: when a record of a scraped file lacks its code or its make_id and
\* every other record is complete, the import does not abort: it runs to
\* the save, and every complete record is persisted under its key as if the
\* malformed record were absent.
Malformed(r) == r.code = <<>> \/ r.make_id = <<>>

C15_MalformedRecordDropped ==
    (/\ lastOp.kind = "import"
     /\ \E i \in 1..Len(lastOp.batch) : Malformed(lastOp.batch[i])
     /\ \A i \in 1..Len(lastOp.batch) :
            ~Malformed(lastOp.batch[i]) => lastOp.batch[i].description # <<>>
     /\ \A k \in 1..Len(lastOp.D) :
            lastOp.D[k].code # NaN /\ lastOp.D[k].make_id # NaN
                /\ lastOp.D[k].description # NaN) =>
        /\ ~lastOp.raised
        /\ \A i \in 1..Len(lastOp.batch) :
               ~Malformed(lastOp.batch[i]) =>
                   IdentityKey(lastOp.batch[i]) \in KeysOf(outputFile)
        /\ \A j \in 1..Len(outputFile) : ~Malformed(outputFile[j])

(***************************************************************************)
(* SpecCall: one request to the external service through call_openrouter   *)
(* of fill_dtc_gaps.py or of generate_vehicles.py, for every way the       *)
(* completion request and the generation-detail lookup can end.            *)
(***************************************************************************)
T_completion == <<"[","]">>

Exchanges ==
    { Exchange(primary, generation_id, secondary, usage, T_completion) :
        primary \in PrimaryResults, generation_id \in BOOLEAN,
        secondary \in SecondaryResults, usage \in BOOLEAN }

\* the counters at the time of the call: a fresh run, or one call of each
\* kind counted before
StatsBefore ==
    { CallStatsZero, add_failed_call(add_generation_stats(CallStatsZero)) }

InitCall ==
    /\ outputFile = <<>>
    /\ assetsFile = <<>>
    /\ stats = StatsZero
    /\ lastOp = OpNone
    /\ norm = NormIdle
    /\ rec = RecIdle
    /\ cls = ClsIdle
    /\ run = RunIdle
    /\ \E x \in Exchanges, st \in StatsBefore :
           call = [pc |-> "request", exchange |-> x, before |-> st,
                   result |-> ReturnedNone(st)]

\* fill_dtc_gaps.py: call_openrouter(prompt, ...)
FillCall ==
    /\ call.pc = "request"
    /\ call' = [call EXCEPT !.pc = "fill", !.result = call_openrouter(call.exchange, call.before)]
    /\ UNCHANGED <<outputFile, assetsFile, stats, lastOp, norm, rec, cls, run>>

\* generate_vehicles.py: call_openrouter(prompt, ...)
GeneratorCall ==
    /\ call.pc = "request"
    /\ call' = [call EXCEPT !.pc = "generator",
                            !.result = generator_call_openrouter(call.exchange, call.before)]
    /\ UNCHANGED <<outputFile, assetsFile, stats, lastOp, norm, rec, cls, run>>

NextCall == FillCall \/ GeneratorCall

SpecCall == InitCall /\ [][NextCall]_vars

\* C17: when the completion request succeeds and its response reports usage
\* figures, and the generation-detail lookup is absent (no generation id),
\* returns a non-success status, or fails with a network error or a
\* timeout, the completion text is returned to the caller and the call is
\* counted as one successful call, estimated from the usage figures, and
\* not as a failed one.
LookupUnavailable(x) ==
    \/ ~x.generation_id
    \/ x.secondary \in {"non_success", "network_error", "timeout"}

C17_LookupFailureHarmless ==
    (/\ call.pc \in {"fill", "generator"}
     /\ call.exchange.primary = "ok"
     /\ call.exchange.usage
     /\ LookupUnavailable(call.exchange)) =>
        /\ call.result.returned
        /\ call.result.content = call.exchange.content
        /\ call.result.stats.successful_calls = call.before.successful_calls + 1
        /\ call.result.stats.estimated_calls = call.before.estimated_calls + 1
        /\ call.result.stats.failed_calls = call.before.failed_calls

(***************************************************************************)
(* SpecRun: `fill_dtc_gaps.py --all`.  main loads the dataset, fill_all_gaps*)
(* calls fill_gaps_for_manufacturer for every manufacturer of the dataset  *)
(* in sorted order, each generating its codes in batches of at most        *)
(* MAX_BATCH_SIZE through call_openrouter, and main saves the dataset      *)
(* once, after the loop.  A KeyboardInterrupt can arrive between any two   *)
(* steps.                                                                  *)
(***************************************************************************)
MaxMakes == 2

MAX_BATCH_SIZE == 25

RECOMMENDED_CODE_COUNTS == [premium |-> 80, standard |-> 60, compact |-> 40]

W_mercedes_benz == <<"m","e","r","c","e","d","e","s","-","b","e","n","z">>
W_audi == <<"a","u","d","i">>
W_porsche == <<"p","o","r","s","c","h","e">>
W_lexus == <<"l","e","x","u","s">>
W_jaguar == <<"j","a","g","u","a","r">>

\* premium_makes of fill_gaps_for_manufacturer
premium_makes == {W_bmw, W_mercedes_benz, W_audi, W_porsche, W_lexus, W_jaguar}

\* premium_makes of identify_gaps
identify_gaps_premium_makes == {W_bmw, W_mercedes_benz, W_audi, W_porsche, W_lexus}

\* the manufacturers of the dataset the run starts from, in sorted order
RunMakes == <<W_bmw, W_honda, W_toyota>>

Min(a, b) == IF a < b THEN a ELSE b

Max(a, b) == IF a < b THEN b ELSE a

\* sorted(manufacturers)
RECURSIVE sorted(_)
sorted(S) ==
    IF S = {} THEN <<>>
    ELSE LET m == CHOOSE m \in S : \A o \in S \ {m} : StrLess(m, o)
         IN  <<m>> \o sorted(S \ {m})

\* df['make_id'].unique()
unique_make_ids(df) == {df[i].make_id : i \in 1..Len(df)}

\* set(make_codes['code'].str.upper()) of the rows whose make_id is make_id
existing_codes_of(df, make_id) ==
    {StrUpper(df[i].code) : i \in {k \in 1..Len(df) : df[k].make_id = make_id}}

\* the default target of fill_gaps_for_manufacturer
target_count(make_id, current_count) ==
    IF make_id \in premium_makes
    THEN Max(RECOMMENDED_CODE_COUNTS.premium - current_count, 20)
    ELSE Max(RECOMMENDED_CODE_COUNTS.standard - current_count, 15)

\* the recommended count target_count starts from
fill_recommended(make_id) ==
    IF make_id \in premium_makes
    THEN RECOMMENDED_CODE_COUNTS.premium
    ELSE RECOMMENDED_CODE_COUNTS.standard

\* identify_gaps, the entry of low_coverage_manufacturers for a manufacturer
\* that has count rows in the dataset
identify_gaps_entry(make_id, count) ==
    LET recommended == IF make_id \in identify_gaps_premium_makes
                       THEN RECOMMENDED_CODE_COUNTS.premium
                       ELSE RECOMMENDED_CODE_COUNTS.standard
    IN  IF count < recommended
        THEN [listed |-> TRUE, count |-> count, recommended |-> recommended,
              deficit |-> recommended - count]
        ELSE [listed |-> FALSE, count |-> count, recommended |-> recommended,
              deficit |-> 0]

\* the records of an answer as parse_json_robustly returns them: a code the
\* manufacturer does not have yet, named after the batch, and in the first
\* batch also a code it has
BatchDigits == <<"1", "2", "3", "4", "5", "6">>

GeneratedCode(batch_num) == <<"P", "1", "0", "0", BatchDigits[batch_num]>>

GeneratedAnswer(batch_num) ==
    IF batch_num = 1
    THEN <<Row(T_P0420, <<>>, T_xy, W_All), Row(GeneratedCode(1), <<>>, T_x, W_All)>>
    ELSE <<Row(GeneratedCode(batch_num), <<>>, T_x, W_All)>>

NoExchange == Exchange("none", FALSE, "none", FALSE, <<>>)

\* how a generation call of the run can end
RunExchanges(batch_num) ==
    { Exchange("ok", TRUE, "ok", TRUE, GeneratedAnswer(batch_num)),
      Exchange("ok", TRUE, "timeout", TRUE, GeneratedAnswer(batch_num)),
      Exchange("network_error", FALSE, "ok", FALSE, <<>>),
      Exchange("http_error", FALSE, "ok", FALSE, <<>>),
      Exchange("timeout", FALSE, "ok", FALSE, <<>>) }

\* _generate_single_batch: the records of the response, [] without response
generate_single_batch(x, st) ==
    LET response == call_openrouter(x, st)
    IN  [codes |-> IF response.returned THEN response.content ELSE <<>>,
         stats |-> response.stats]

\* for code in new_codes: code['make_id'] = make_id
stamp_make_id(new_codes, make_id) ==
    [i \in 1..Len(new_codes) |-> [new_codes[i] EXCEPT !.make_id = make_id]]

\* new_df[~new_df['code'].str.upper().isin(existing_codes)]
filter_existing(new_df, existing_codes) ==
    SelectSeq(new_df, LAMBDA r : StrUpper(r.code) \notin existing_codes)

InitRun ==
    /\ \E k \in 1..MaxMakes :
           outputFile = [i \in 1..k |-> Row(T_P0420, RunMakes[i], T_xy, W_All)]
    /\ assetsFile = <<>>
    /\ stats = StatsZero
    /\ lastOp = OpNone
    /\ norm = NormIdle
    /\ rec = RecIdle
    /\ cls = ClsIdle
    /\ call = CallIdle
    /\ run = [pc |-> "main", df |-> <<>>, queue |-> <<>>, make_id |-> <<>>,
              existing_codes |-> {}, remaining |-> 0, batch_num |-> 0,
              all_codes |-> <<>>, stats |-> CallStatsZero, codes_added |-> 0,
              committed |-> <<>>, last |-> NoExchange,
              target_count |-> 0, current_existing |-> {}, requested |-> <<>>,
              passed |-> <<>>]

\* main: df = load_existing_dtc_codes(); fill_all_gaps: sorted(manufacturers)
StartRun ==
    /\ run.pc = "main"
    /\ LET df == load_existing_dtc_codes(outputFile, assetsFile)
       IN  run' = [run EXCEPT !.pc = "next", !.df = df,
                              !.queue = sorted(unique_make_ids(df))]
    /\ UNCHANGED <<outputFile, assetsFile, stats, lastOp, norm, rec, cls, call>>

\* fill_gaps_for_manufacturer up to the first generation call
StartManufacturer ==
    /\ run.pc = "next"
    /\ run.queue # <<>>
    /\ LET make_id == Head(run.queue)
           existing_codes == existing_codes_of(run.df, make_id)
       IN  run' = [run EXCEPT !.pc = "batch", !.make_id = make_id,
                              !.existing_codes = existing_codes,
                              !.target_count = target_count(make_id, Cardinality(existing_codes)),
                              !.remaining = target_count(make_id, Cardinality(existing_codes)),
                              !.current_existing = existing_codes,
                              !.requested = <<>>, !.passed = <<>>,
                              !.batch_num = 1, !.all_codes = <<>>, !.last = NoExchange]
    /\ UNCHANGED <<outputFile, assetsFile, stats, lastOp, norm, rec, cls, call>>

\* a batch that asks for everything that remains
batch_size_unbounded(remaining) == remaining

\* batch_size = min(remaining, MAX_BATCH_SIZE)
batch_size(remaining) == Min(remaining, MAX_BATCH_SIZE)

\* for code in batch_codes: current_existing.add(code.get('code', '').upper())
add_batch_codes(current_existing, batch_codes) ==
    current_existing \cup {StrUpper(batch_codes[i].code) : i \in 1..Len(batch_codes)}

\* one pass of the batch loop of generate_dtc_codes_for_manufacturer (every
\* target of a run is above MAX_BATCH_SIZE); requested and passed record the
\* size asked for and the set of codes handed to _generate_single_batch
GenerateBatch ==
    /\ run.pc = "batch"
    /\ run.remaining > 0
    /\ \E x \in RunExchanges(run.batch_num) :
           LET batch == generate_single_batch(x, run.stats)
               remaining == run.remaining - batch_size(run.remaining)
           IN  run' = [run EXCEPT !.all_codes = @ \o batch.codes,
                                  !.current_existing = add_batch_codes(@, batch.codes),
                                  !.requested = Append(@, batch_size(run.remaining)),
                                  !.passed = Append(@, run.current_existing),
                                  !.stats = batch.stats,
                                  !.remaining = remaining,
                                  !.batch_num = @ + 1,
                                  !.last = x,
                                  !.pc = IF remaining > 0 THEN "batch" ELSE "generated"]
    /\ UNCHANGED <<outputFile, assetsFile, stats, lastOp, norm, rec, cls, call>>

\* the rest of fill_gaps_for_manufacturer, and the next turn of the loop of
\* fill_all_gaps
FinishManufacturer ==
    /\ run.pc = "generated"
    /\ LET new_df == filter_existing(stamp_make_id(run.all_codes, run.make_id),
                                     run.existing_codes)
       IN  IF run.all_codes = <<>>
           THEN run' = [run EXCEPT !.pc = "next", !.queue = Tail(@)]
           ELSE run' = [run EXCEPT !.pc = "next", !.queue = Tail(@),
                                   !.df = @ \o new_df,
                                   !.codes_added = @ + Len(new_df),
                                   !.committed = @ \o new_df]
    /\ UNCHANGED <<outputFile, assetsFile, stats, lastOp, norm, rec, cls, call>>

\* main, after fill_all_gaps returned: save_dtc_codes(df)
SaveAll ==
    /\ run.pc = "next"
    /\ run.queue = <<>>
    /\ outputFile' = save_dtc_codes(run.df)
    /\ run' = [run EXCEPT !.pc = "done"]
    /\ UNCHANGED <<assetsFile, stats, lastOp, norm, rec, cls, call>>

\* KeyboardInterrupt: the handler prints the summary and exits
Interrupt ==
    /\ run.pc \in {"next", "batch", "generated"}
    /\ run' = [run EXCEPT !.pc = "interrupted"]
    /\ UNCHANGED <<outputFile, assetsFile, stats, lastOp, norm, rec, cls, call>>

NextRun ==
    \/ StartRun
    \/ StartManufacturer
    \/ GenerateBatch
    \/ FinishManufacturer
    \/ SaveAll
    \/ Interrupt

SpecRun == InitRun /\ [][NextRun]_vars

\* C16: when a generation call of the run fails with a network error, a
\* non-success status or a timeout, the call is counted as one failed call,
\* the batch adds no record, the dataset in memory stays as it was, and the
\* run goes on with the next batch or the rest of the manufacturer's work
\* with every later manufacturer still queued; a manufacturer whose calls
\* gave no record leaves the dataset unchanged and the run moves to the
\* next manufacturer.
FailedCallStep ==
    /\ run.pc = "batch"
    /\ run'.pc \in {"batch", "generated"}
    /\ run'.last.primary \in {"network_error", "http_error", "timeout"}

C16_FailedCallStep ==
    /\ FailedCallStep =>
           /\ run'.stats.failed_calls = run.stats.failed_calls + 1
           /\ run'.stats.api_calls = run.stats.api_calls + 1
           /\ run'.stats.successful_calls = run.stats.successful_calls
           /\ run'.all_codes = run.all_codes
           /\ run'.df = run.df
           /\ run'.queue = run.queue
           /\ run'.batch_num = run.batch_num + 1
    /\ (run.pc = "generated" /\ run.all_codes = <<>> /\ run'.pc # "interrupted") =>
           /\ run'.pc = "next"
           /\ run'.df = run.df
           /\ run'.queue = Tail(run.queue)

C16_FailedCallContinues == [][C16_FailedCallStep]_vars

\* a finished run in which every generation call for the first manufacturer
\* failed, so that it got no new code, and the codes generated afterwards
\* for the second manufacturer are in the saved dataset
C16_Witness ==
    /\ run.pc = "done"
    /\ run.stats.failed_calls >= 4
    /\ \A i \in 1..Len(outputFile) :
           outputFile[i].make_id = RunMakes[1] => outputFile[i].code = T_P0420
    /\ \E i \in 1..Len(outputFile) :
           /\ outputFile[i].make_id = RunMakes[2]
           /\ outputFile[i].code = GeneratedCode(1)

\* C18: when the run is interrupted, the persisted dataset holds every
\* record added for the manufacturers completed before the interruption.
C18_InterruptKeepsCommitted ==
    run.pc = "interrupted" =>
        \A i \in 1..Len(run.committed) :
            \E j \in 1..Len(outputFile) : read_csv(outputFile)[j] = run.committed[i]

\* the dataset of a completed import in processing order: the loaded rows
\* with their updates applied, then the appended rows of the incoming file
Processed ==
    LET df == lastOp.D
        scraped == read_csv(lastOp.batch)
        new_codes == NewCodes(df, scraped)
    IN  ApplyUpdates(df, CodesToUpdate(df, scraped, lastOp.update_existing))
            \o (IF new_codes = <<>> THEN <<>>
                ELSE new_rows_of(new_codes, StrLower(scraped[1].make_id),
                                 lastOp.enrich, lastOp.response))

\* the position of the last row of df that has the (code, make_id) of row i
LastOccurrence(df, i) ==
    CHOOSE j \in i..Len(df) :
        /\ ExactKey(df[j]) = ExactKey(df[i])
        /\ \A k \in (j + 1)..Len(df) : ExactKey(df[k]) # ExactKey(df[i])

OrderedByOwnerCode(file) ==
    \A i \in 1..(Len(file) - 1) : ~RowLess(read_csv(file)[i + 1], read_csv(file)[i])

\* C20: every persisted dataset, the output file and the assets file, is
\* ordered by (make_id, code): of two consecutive records the first is not
\* greater than the second.
C20_PersistedOrdered ==
    /\ OrderedByOwnerCode(outputFile)
    /\ OrderedByOwnerCode(assetsFile)

\* a row of an uploaded file that the upload contract accepts: the code has
\* the DTC format and code, make_id and description are present
AcceptableRow(r) ==
    /\ r.code # NaN /\ DTC_PATTERN(StrUpper(r.code))
    /\ r.make_id # NaN
    /\ r.description # NaN

\* C21: a bulk upload rejects, one by one, each row whose code fails the
\* code format and each row without code, make_id or description, and
\* handles every other row: the rows counted as added or skipped are exactly
\* the acceptable rows of the file, and no row appended to the persisted
\* dataset lacks a code, a make_id or a description.
C21_BulkRowValidation ==
    lastOp.kind = "gui_upload" =>
        LET upload_df == read_csv(lastOp.batch)
        IN  /\ lastOp.added + lastOp.skipped =
                   Cardinality({i \in 1..Len(upload_df) : AcceptableRow(upload_df[i])})
            /\ \A j \in (Len(lastOp.before) + 1)..Len(outputFile) :
                   AcceptableRow(read_csv(outputFile)[j])

(***************************************************************************)
(* SpecGaps: the coverage target of one manufacturer as identify_gaps      *)
(* (--analyze) and fill_gaps_for_manufacturer (--manufacturer, --all)      *)
(* compute it from the number of codes the manufacturer has.               *)
(***************************************************************************)
MaxCount == 82

GapMakes == {W_bmw, W_lexus, W_jaguar, W_honda, W_toyota}

NoGapEntry == [listed |-> FALSE, count |-> 0, recommended |-> 0, deficit |-> 0]

InitGaps ==
    /\ outputFile = <<>>
    /\ assetsFile = <<>>
    /\ stats = StatsZero
    /\ lastOp = OpNone
    /\ norm = NormIdle
    /\ rec = RecIdle
    /\ cls = ClsIdle
    /\ call = CallIdle
    /\ \E make_id \in GapMakes, count \in 1..MaxCount :
           run = [pc |-> "loaded", make_id |-> make_id, count |-> count,
                  gap |-> NoGapEntry, recommended |-> 0, target_count |-> 0]

\* identify_gaps(df)
IdentifyGaps ==
    /\ run.pc = "loaded"
    /\ run' = [run EXCEPT !.pc = "analyzed",
                          !.gap = identify_gaps_entry(run.make_id, run.count)]
    /\ UNCHANGED <<outputFile, assetsFile, stats, lastOp, norm, rec, cls, call>>

\* fill_gaps_for_manufacturer(df, make_id), the target it determines
DetermineTarget ==
    /\ run.pc = "analyzed"
    /\ run' = [run EXCEPT !.pc = "targeted",
                          !.recommended = fill_recommended(run.make_id),
                          !.target_count = target_count(run.make_id, run.count)]
    /\ UNCHANGED <<outputFile, assetsFile, stats, lastOp, norm, rec, cls, call>>

NextGaps == IdentifyGaps \/ DetermineTarget

SpecGaps == InitGaps /\ [][NextGaps]_vars

\* C22: the deficit of a manufacturer is max(0, tierTarget - currentCount)
\* with tierTarget 80 for the premium manufacturers and 60 for the others;
\* it is never negative, the manufacturer is listed as low coverage exactly
\* when the deficit is positive, and the gap filler starts from the same
\* tier target as the gap analyzer.
C22_DeficitAndTier ==
    run.pc = "targeted" =>
        LET tierTarget == IF run.make_id \in identify_gaps_premium_makes THEN 80 ELSE 60
        IN  /\ run.gap.deficit = Max(0, tierTarget - run.count)
            /\ run.gap.deficit >= 0
            /\ run.gap.listed <=> run.gap.deficit > 0
            /\ run.recommended = run.gap.recommended

(***************************************************************************)
(* SpecSave: one save of the dataset, by save_dtc_codes of fill_dtc_gaps.py*)
(* or by save_data of generate_vehicles.py.  Both hand the path of         *)
(* dtc_codes.csv to DataFrame.to_csv, which opens the file for writing,    *)
(* truncating it, and writes the rows into it; an OSError or a             *)
(* KeyboardInterrupt during the write propagates to the caller.            *)
(***************************************************************************)
MaxSaved == 2

SavedRows ==
    { Row(T_P0420, T_toyota, T_xy, W_All),
      Row(T_P0420, T_honda, T_x, W_All),
      Row(T_X1, T_toyota, T_x, W_All) }

\* the frames handed to a save; the file on disk is the result of an
\* earlier save
SavedFrames == ListsOf(SavedRows, MaxSaved)

InitSave ==
    /\ \E previous \in SavedFrames : outputFile = save_dtc_codes(previous)
    /\ assetsFile = <<>>
    /\ stats = StatsZero
    /\ lastOp = OpNone
    /\ norm = NormIdle
    /\ rec = RecIdle
    /\ cls = ClsIdle
    /\ call = CallIdle
    /\ \E df \in SavedFrames, program \in {"fill_dtc_gaps", "generate_vehicles"} :
           run = [pc |-> "save", program |-> program, df |-> df, previous |-> <<>>,
                  content |-> <<>>, raised |-> FALSE]

\* save_dtc_codes(df) / save_data(data) up to the open of the file inside
\* to_csv: mode 'w' truncates the file
OpenForWriting ==
    /\ run.pc = "save"
    /\ run' = [run EXCEPT !.pc = "writing", !.previous = outputFile,
                          !.content = IF run.program = "fill_dtc_gaps"
                                      THEN save_dtc_codes(run.df)
                                      ELSE save_data(run.df)]
    /\ outputFile' = <<>>
    /\ UNCHANGED <<assetsFile, stats, lastOp, norm, rec, cls, call>>

\* to_csv writes the next row
WriteRow ==
    /\ run.pc = "writing"
    /\ Len(outputFile) < Len(run.content)
    /\ outputFile' = Append(outputFile, run.content[Len(outputFile) + 1])
    /\ UNCHANGED <<run, assetsFile, stats, lastOp, norm, rec, cls, call>>

\* to_csv returns and the file is closed
CloseFile ==
    /\ run.pc = "writing"
    /\ Len(outputFile) = Len(run.content)
    /\ run' = [run EXCEPT !.pc = "saved"]
    /\ UNCHANGED <<outputFile, assetsFile, stats, lastOp, norm, rec, cls, call>>

\* the write fails (OSError) or the process is interrupted: the exception
\* leaves save_dtc_codes / save_data and the file stays as written so far
WriteFails ==
    /\ run.pc = "writing"
    /\ run' = [run EXCEPT !.pc = "failed", !.raised = TRUE]
    /\ UNCHANGED <<outputFile, assetsFile, stats, lastOp, norm, rec, cls, call>>

NextSave == OpenForWriting \/ WriteRow \/ CloseFile \/ WriteFails

SpecSave == InitSave /\ [][NextSave]_vars

\* C23: at every point of a save, a failure in the middle of the write
\* included, the file on disk is the complete previous dataset or the
\* complete new one, and a failed write is raised to the caller.
C23_NoPartialFile ==
    /\ run.pc \in {"writing", "saved", "failed"} =>
           outputFile = run.previous \/ outputFile = run.content
    /\ run.pc = "failed" => run.raised

\* C24: after an import that completes with its new rows built from the
\* file (quick import), every incoming row whose key
\* (code upper-cased, make_id lower-cased) was not in the dataset is in the
\* persisted dataset under that key: a new record gets the make_id of its
\* own row, the one its existence check used.
C24_InsertedUnderOwnKey ==
    (lastOp.kind = "import" /\ ~lastOp.raised /\ QuickImportRuns(lastOp.enrich, lastOp.response)) =>
        LET scraped == read_csv(lastOp.batch)
        IN  \A i \in 1..Len(scraped) :
                IsNewCode(lastOp.D, scraped[i]) =>
                    \E j \in 1..Len(outputFile) :
                        IdentityKey(read_csv(outputFile)[j]) = IdentityKey(scraped[i])

\* C25: for an array of k >= 1 complete objects followed by an object that
\* is cut, the text repair_truncated_json returns decodes, and it decodes to
\* the array of the k complete objects.
C25_RepairBalanced ==
    rec.pc = "done" /\ rec.complete # <<>> =>
        /\ json_loads(repair_truncated_json(rec.text)).ok
        /\ json_loads(repair_truncated_json(rec.text)).val = json_loads(rec.complete).val

(***************************************************************************)
(* SpecEnrich: `fill_dtc_gaps.py --enrich-existing`.  enrich_existing_codes*)
(* finds the records of the selected manufacturers that need enrichment,   *)
(* asks the service through enrich_codes_batch and writes the descriptive  *)
(* fields of the answer into the frame; main saves the frame.  A record    *)
(* carries here, besides the four columns of Row, the two columns the      *)
(* need for enrichment is read from; the frames hold few enough codes for  *)
(* one batch of enrich_codes_batch.                                        *)
(***************************************************************************)
MaxEnrichRows == 2

EnrichRow(code, make_id, description, detailed_description, common_causes, powertrain_type) ==
    [code |-> code, make_id |-> make_id, description |-> description,
     detailed_description |-> detailed_description, common_causes |-> common_causes,
     powertrain_type |-> powertrain_type]

\* a detailed description of 50 characters
T_detailed == [i \in 1..50 |-> "d"]

T_causes == <<"[", "\"", "a", "\"", "]">>

T_no_causes == <<"[", "]">>

\* the columns enrich_existing_codes writes, of those a record carries here
EnrichedFields_with_identity ==
    {"code", "description", "detailed_description", "common_causes", "powertrain_type"}

EnrichedFields == {"detailed_description", "common_causes", "powertrain_type"}

\* needs_enrich of a row
needs_enrich(row) ==
    \/ row.detailed_description = NaN
    \/ row.detailed_description = row.description
    \/ Len(row.detailed_description) < 50
    \/ row.common_causes = NaN
    \/ row.common_causes \in {T_no_causes, <<>>}

\* manufacturers as the loop uses it: every make_id of the frame for None,
\* else the given names lower-cased
enrich_manufacturers(df, manufacturers) ==
    IF manufacturers = PyNone THEN unique_make_ids(df)
    ELSE {StrLower(manufacturers[i]) : i \in 1..Len(manufacturers)}

\* the record quick_import_codes builds for one code
quick_import_record(code, desc, make_id) ==
    EnrichRow(StrUpper(code), make_id, desc, desc, T_no_causes,
              detect_powertrain_from_code(desc))

\* enrich_codes_batch(codes, make_id): the items of the answer stamped with
\* make_id, then a quick import of every code the answer did not cover
enrich_codes_batch(items, make_id, response) ==
    LET enriched == IF response.answered
                    THEN [i \in 1..Len(response.items) |->
                             [f \in DOMAIN response.items[i] \cup {"make_id"} |->
                                 IF f = "make_id" THEN make_id ELSE response.items[i][f]]]
                    ELSE <<>>
        enriched_codes == {IF "code" \in DOMAIN enriched[i] THEN StrUpper(enriched[i].code)
                           ELSE <<>> : i \in 1..Len(enriched)}
        missing == SelectSeq(items, LAMBDA r : StrUpper(r.code) \notin enriched_codes)
    IN  enriched \o [i \in 1..Len(missing) |->
                        quick_import_record(missing[i].code, missing[i].description, make_id)]

\* e['code'] of an item without the key raises KeyError
EnrichRaises(response) ==
    response.answered /\ \E i \in 1..Len(response.items) : "code" \notin DOMAIN response.items[i]

\* enriched_by_code[code]: the last item of enriched with that code
enriched_by_code(enriched, code) ==
    enriched[CHOOSE i \in 1..Len(enriched) :
                 /\ StrUpper(enriched[i].code) = code
                 /\ \A j \in (i + 1)..Len(enriched) : StrUpper(enriched[j].code) # code]

\* the assignments df.at[idx, column] = enriched_data[column]
update_fields(row, enriched_data) ==
    [f \in DOMAIN row |->
        IF f \in EnrichedFields /\ f \in DOMAIN enriched_data THEN enriched_data[f]
        ELSE row[f]]

\* enrich_existing_codes(df, manufacturers), the service answering every
\* request with response
enrich_existing_codes(df, manufacturers, response) ==
    LET selected == enrich_manufacturers(df, manufacturers)
        to_enrich(r) == r.make_id \in selected /\ needs_enrich(r)
        items_of(make_id) == SelectSeq(df, LAMBDA r : r.make_id = make_id /\ to_enrich(r))
        enriched_row(r) ==
            LET enriched == enrich_codes_batch(items_of(r.make_id), r.make_id, response)
            IN  IF \E i \in 1..Len(enriched) : StrUpper(enriched[i].code) = StrUpper(r.code)
                THEN update_fields(r, enriched_by_code(enriched, StrUpper(r.code)))
                ELSE r
    IN  IF \A i \in 1..Len(df) : ~to_enrich(df[i])
        THEN [raised |-> FALSE, df |-> df]
        ELSE IF EnrichRaises(response)
        THEN [raised |-> TRUE, df |-> df]
        ELSE [raised |-> FALSE,
              df |-> [i \in 1..Len(df) |-> IF to_enrich(df[i]) THEN enriched_row(df[i])
                                           ELSE df[i]]]

EnrichRows ==
    { EnrichRow(T_P0420, T_toyota, T_xy, NaN, NaN, W_All),
      EnrichRow(T_P0420, T_honda, T_x, T_detailed, T_causes, W_Diesel),
      EnrichRow(T_X1, T_toyota, T_x, T_x, T_no_causes, W_All),
      EnrichRow(T_P1000, T_toyota, T_xy, T_detailed, T_causes, W_Petrol) }

EnrichSelections == { PyNone, <<T_toyota>>, <<T_Toyota>>, <<T_honda>> }

\* answers of the service: none, no item, the descriptive fields of P0420,
\* an item that names another code, manufacturer and description for p0420,
\* an item for a code that was not asked for, an item without code
EnrichAnswers ==
    { AiFailed,
      AiAnswer(<<>>),
      AiAnswer(<< [code |-> T_P0420, detailed_description |-> T_detailed,
                   common_causes |-> T_causes, powertrain_type |-> W_Diesel] >>),
      AiAnswer(<< [code |-> T_p0420, make_id |-> T_honda, description |-> T_xyz,
                   detailed_description |-> T_xyz] >>),
      AiAnswer(<< [code |-> T_P1000, make_id |-> T_honda, powertrain_type |-> T_EV] >>),
      AiAnswer(<< [detailed_description |-> T_detailed] >>) }

InitEnrich ==
    /\ outputFile = <<>>
    /\ assetsFile = <<>>
    /\ stats = StatsZero
    /\ lastOp = OpNone
    /\ norm = NormIdle
    /\ rec = RecIdle
    /\ cls = ClsIdle
    /\ call = CallIdle
    /\ \E df \in ListsOf(EnrichRows, MaxEnrichRows), manufacturers \in EnrichSelections,
          response \in EnrichAnswers :
           run = [pc |-> "enrich", df |-> df, manufacturers |-> manufacturers,
                  response |-> response, raised |-> FALSE, saved |-> df]

\* main: df = enrich_existing_codes(df, manufacturers); save_dtc_codes(df)
EnrichExisting ==
    /\ run.pc = "enrich"
    /\ LET r == enrich_existing_codes(run.df, run.manufacturers, run.response)
           saved == drop_duplicates_last(sort_values(r.df))
       IN  IF r.raised
           THEN /\ run' = [run EXCEPT !.pc = "done", !.raised = TRUE]
                /\ UNCHANGED outputFile
           ELSE /\ run' = [run EXCEPT !.pc = "done", !.saved = saved]
                /\ outputFile' = to_csv(saved)
    /\ UNCHANGED <<assetsFile, stats, lastOp, norm, rec, cls, call>>

NextEnrich == EnrichExisting

SpecEnrich == InitEnrich /\ [][NextEnrich]_vars

\* was the record handed to the service
Selected(r) ==
    /\ r.make_id \in enrich_manufacturers(run.df, run.manufacturers)
    /\ needs_enrich(r)

\* C26: enrichment of existing codes keeps the number of records, and every
\* record of the frame is found again with its code, make_id and description
\* as they were; a record of a manufacturer that was not selected, or that
\* did not need enrichment, is found again with every field as it was.
C26_EnrichFrame ==
    run.pc = "done" =>
        /\ Len(run.saved) = Len(run.df)
        /\ \A i \in 1..Len(run.df) :
               \E j \in 1..Len(run.saved) :
                   /\ run.saved[j].code = run.df[i].code
                   /\ run.saved[j].make_id = run.df[i].make_id
                   /\ run.saved[j].description = run.df[i].description
                   /\ ~Selected(run.df[i]) => run.saved[j] = run.df[i]

\* an enrichment that rewrote the descriptive fields of a selected record
\* from an answer that names another manufacturer and description for the
\* code, beside a record that was not selected
C26_Witness ==
    /\ run.pc = "done" /\ ~run.raised
    /\ run.response.answered
    /\ \E i \in 1..Len(run.response.items) : "description" \in DOMAIN run.response.items[i]
    /\ \E i \in 1..Len(run.df) :
           /\ Selected(run.df[i])
           /\ \E j \in 1..Len(run.saved) :
                  /\ run.saved[j].code = run.df[i].code
                  /\ run.saved[j].make_id = run.df[i].make_id
                  /\ run.saved[j].detailed_description = T_xyz
                  /\ run.saved[j] # run.df[i]
    /\ \E i \in 1..Len(run.df) : ~Selected(run.df[i])

(***************************************************************************)
(* SpecStandard: `fill_dtc_gaps.py --import-standard [-m <manufacturer>]   *)
(* [--code-range P0xxx] [--import-max n] [--enrich]`: import_standard_codes*)
(* followed by the save of main.                                           *)
(***************************************************************************)
MaxImportCodes == 2

\* the codes the manufacturer has: set(df[df['make_id'] == make_id]['code'].str.upper())
\* and the reference entries that are candidates for the import
standard_candidates(df, make_id, code_prefix) ==
    SelectSeq(REFERENCE_CODES,
              LAMBDA item :
                  /\ StrUpper(item[1]) \notin existing_codes_of(df, make_id)
                  /\ \/ code_prefix = <<>>
                     \/ Slice(StrUpper(item[1]), 0, Len(code_prefix)) = StrUpper(code_prefix))

\* import_standard_codes(df, manufacturer, code_prefix, max_codes, enrich);
\* manufacturer and code_prefix are empty for None
import_standard_codes(df, manufacturer, code_prefix, max_codes, enrich, response) ==
    LET make_id == IF manufacturer = <<>> THEN W_generic ELSE StrLower(manufacturer)
        candidates == standard_candidates(df, make_id, code_prefix)
        codes_to_import == SubSeq(candidates, 1, Min(max_codes, Len(candidates)))
        new_rows == new_rows_of(codes_to_import, make_id, enrich, response)
    IN  IF candidates = <<>> THEN [df |-> df, added |-> 0]
        ELSE [df |-> df \o new_rows, added |-> Len(new_rows)]

StandardDatasets ==
    { <<>>,
      << Row(T_P0420, T_toyota, T_x, W_All) >>,
      << Row(T_P0420, W_generic, T_x, W_All) >> }

\* answers of the enrichment service: none, the code asked for, and an
\* array with more items than were asked for, one of them not a reference code
StandardAnswers ==
    { AiFailed,
      AiAnswer(<< Row(T_P0420, <<>>, T_xy, W_All) >>),
      AiAnswer(<< Row(T_P0420, <<>>, T_xy, W_All), Row(T_X1, <<>>, T_x, W_All),
                  Row(<<"P","1","1","0","1">>, <<>>, T_x, W_All) >>) }

InitStandard ==
    /\ \E D \in StandardDatasets : outputFile = save_dtc_codes(D)
    /\ assetsFile = <<>>
    /\ stats = StatsZero
    /\ lastOp = OpNone
    /\ norm = NormIdle
    /\ rec = RecIdle
    /\ cls = ClsIdle
    /\ call = CallIdle
    /\ \E manufacturer \in {<<>>, T_Toyota}, code_prefix \in {<<>>, <<"P", "0">>},
          max_codes \in 1..MaxImportCodes, enrich \in BOOLEAN, response \in StandardAnswers :
           run = [pc |-> "import", manufacturer |-> manufacturer, code_prefix |-> code_prefix,
                  max_codes |-> max_codes, enrich |-> enrich, response |-> response,
                  df |-> <<>>, added |-> 0]

\* main: load, import_standard_codes, save_dtc_codes
ImportStandard ==
    /\ run.pc = "import"
    /\ LET df == load_existing_dtc_codes(outputFile, assetsFile)
           r == import_standard_codes(df, run.manufacturer, run.code_prefix,
                                      run.max_codes, run.enrich, run.response)
       IN  /\ run' = [run EXCEPT !.pc = "done", !.df = df, !.added = r.added]
           /\ outputFile' = save_dtc_codes(r.df)
           /\ stats' = [stats EXCEPT !.codes_added = @ + r.added]
    /\ UNCHANGED <<assetsFile, lastOp, norm, rec, cls, call>>

NextStandard == ImportStandard

SpecStandard == InitStandard /\ [][NextStandard]_vars

\* C27: one import of standard codes adds at most max_codes records, and
\* every record it adds has the target make_id and a code of the reference
\* catalogue that the target manufacturer did not have.
C27_StandardImportBounded ==
    run.pc = "done" =>
        LET make_id == IF run.manufacturer = <<>> THEN W_generic
                       ELSE StrLower(run.manufacturer)
            added == {j \in 1..Len(outputFile) :
                         \A i \in 1..Len(run.df) :
                             ExactKey(run.df[i]) # ExactKey(read_csv(outputFile)[j])}
        IN  /\ run.added <= run.max_codes
            /\ Len(outputFile) <= Len(run.df) + run.max_codes
            /\ \A j \in added :
                   /\ outputFile[j].make_id = make_id
                   /\ \E k \in 1..Len(REFERENCE_CODES) :
                          REFERENCE_CODES[k][1] = outputFile[j].code
                   /\ outputFile[j].code \notin existing_codes_of(run.df, make_id)

\* C28: after a call of call_openrouter the usage counters satisfy
\* api_calls = successful_calls + failed_calls and estimated_calls <=
\* successful_calls, and the call has increased api_calls by exactly one,
\* whatever the response holds.
C28_CallCountedOnce ==
    call.pc \in {"fill", "generator"} =>
        /\ call.result.stats.api_calls =
               call.result.stats.successful_calls + call.result.stats.failed_calls
        /\ call.result.stats.estimated_calls <= call.result.stats.successful_calls
        /\ call.result.stats.api_calls = call.before.api_calls + 1

\* the records of the persisted dataset that the dataset loaded by the last
\* command did not hold
ActuallyAdded ==
    {j \in 1..Len(outputFile) :
        \A i \in 1..Len(lastOp.D) :
            ExactKey(lastOp.D[i]) # ExactKey(read_csv(outputFile)[j])}

\* C29: after an import that completes, the added counter stats.codes_added
\* has grown by the number of records the import added to the persisted
\* dataset.
C29_AddedCounterExact ==
    (lastOp.kind = "import" /\ ~lastOp.raised) =>
        stats.codes_added = Cardinality(ActuallyAdded)

\* sum of the sizes requested so far
RECURSIVE SumSeq(_)
SumSeq(s) == IF s = <<>> THEN 0 ELSE s[Len(s)] + SumSeq(SubSeq(s, 1, Len(s) - 1))

====
